---- MODULE Spec2Model ----
(***************************************************************************)
(* Verification model of the agentic-cicd orchestrator:                    *)
(*   - invoke_agent        (src/lambda/orchestrator.py), specification     *)
(*                         SpecAgent: the retry loop, one step per         *)
(*                         iteration;                                      *)
(*   - execute_github_workflow (src/lambda/orchestrator.py) and the        *)
(*                         github_api Lambda (src/lambda/github_api.py),   *)
(*                         specification SpecPublish;                      *)
(*   - lambda_handler      (src/lambda/orchestrator.py), specification     *)
(*                         Spec: one step per pipeline stage / generation  *)
(*                         attempt.                                        *)
(***************************************************************************)
EXTENDS Integers, Sequences, FiniteSets, TLC

\* ------------------------------------------------------------------------
\* Bounds of the model
\* ------------------------------------------------------------------------

\* invoke_agent is explored for max_retries in 0..MaxRetriesBound
MaxRetriesBound ==
    3

\* lambda_handler is explored for events and environments that deviate from
\* the nominal one (every service configured, every remote call answered
\* well) in at most MaxDeviations places: a service that is not configured,
\* or a stage of the pipeline in which the answers are unconstrained
MaxDeviations ==
    1

\* and for runs in which at most MaxStoreFailures DynamoDB writes in a row
\* fail
MaxStoreFailures ==
    1

\* extract_yaml_content and is_yaml_complete are checked on the texts of at
\* most MaxChunks chunks
MaxChunks ==
    3

\* the event stream of an agent invocation is explored up to MaxStream
\* events
MaxStream ==
    2

\* monitor_progress is explored for --max-wait up to MaxWait seconds
MaxWait ==
    3

\* ------------------------------------------------------------------------
\* Program constants
\* ------------------------------------------------------------------------

\* def invoke_agent(..., max_retries=2)
DefaultMaxRetries ==
    2

\* ------------------------------------------------------------------------
\* Variables
\* ------------------------------------------------------------------------

VARIABLES
    \* invoke_agent (SpecAgent)
    ag_pc,           \* "idle" | "loop" | "returned"
    ag_attempt,      \* loop variable `attempt`
    ag_session,      \* local `session_id` (rebound on every retry)
    ag_max_retries,  \* parameter max_retries
    ag_sessions,     \* session ids passed to bedrock invoke_agent, in order
    ag_waits,        \* arguments of time.sleep, in order
    ag_errors,       \* exceptions raised by the remote invocations, in order
    ag_result,       \* returned dict (NoResult while running)
    \* execute_github_workflow and the repository it publishes to
    gh,              \* the target repository on GitHub: branch, files, PR
    pub_pc,          \* "idle" | "create_branch" | "create_file" | "create_pr" | "returned"
    pub_call,        \* arguments and environment of the last call
    github_result,   \* dict returned by the last call (plus calls issued)
    \* orchestrator lambda_handler (Spec)
    event,           \* the event: is repo_url given, the keys of agent_ids
    env,             \* the environment: which *_FUNCTION_NAME are set, and
                     \* what is deployed behind GITHUB_API_FUNCTION_NAME
    h_pc,            \* position of lambda_handler
    workflow_steps,  \* local workflow_steps
    trace,           \* store writes, remote calls, appends and the return,
                     \* in program order
    task_record,     \* the item of the task in the DynamoDB table
    store_failures,  \* number of DynamoDB writes that failed in a row
    yaml_content_ci, \* local yaml_content_ci (Unbound before its assignment)
    yaml_content_cd, \* local yaml_content_cd (Unbound before its assignment)
    ci_attempt,      \* loop variable ci_attempt
    cd_attempt,      \* loop variable cd_attempt
    ci_validation_errors,
    cd_validation_errors,
    pr_body,         \* local pr_body
    h_result,        \* value returned by lambda_handler
    \* two tasks running side by side (SpecTasks)
    tasks,           \* per task id: the state of its lambda_handler
    table,           \* the DynamoDB table: the item of every key
    \* a function called on its own (SpecValidator)
    fn_pc,           \* "idle" | "invoked" | "returned"
    fn_args,         \* its arguments
    fn_result        \* what it returned

avars ==
    <<ag_pc, ag_attempt, ag_session, ag_max_retries, ag_sessions, ag_waits,
      ag_errors, ag_result>>

pvars ==
    <<gh, pub_pc, pub_call, github_result>>

hctl ==
    <<event, env, h_pc, workflow_steps, trace, yaml_content_ci,
      yaml_content_cd, ci_attempt, cd_attempt, ci_validation_errors,
      cd_validation_errors, pr_body, h_result>>

hvars ==
    <<hctl, task_record, store_failures>>

\* execute_github_workflow without the repository
sharedp ==
    <<pub_pc, pub_call, github_result>>

cvars ==
    <<tasks, table>>

fvars ==
    <<fn_pc, fn_args, fn_result>>

vars ==
    <<avars, pvars, hvars, cvars, fvars>>

\* ------------------------------------------------------------------------
\* invoke_agent
\* ------------------------------------------------------------------------

NoResult ==
    [status |-> "none", completion |-> "", action_group_invocations |-> <<>>,
     message |-> "", error_type |-> ""]

\* type(e).__name__ of the exceptions the remote invocation or the reading of
\* its event stream can raise
ErrorTypes ==
    {"ThrottlingException", "ServiceException", "InternalServerException",
     "ValidationException", "EventStreamError"}

\* str(e)
ErrorMessages ==
    {"An error occurred (dependencyFailedException) when calling InvokeAgent",
     "An error occurred (accessDeniedException) when calling InvokeAgent"}

\* `needle in hay` for the strings of the model
Contains(hay, needle) ==
    CASE needle = "dependencyFailedException" ->
            hay = "An error occurred (dependencyFailedException) when calling InvokeAgent"
      [] needle = "ThrottlingException" -> hay = "ThrottlingException"
      [] needle = "ServiceException" -> hay = "ServiceException"
      [] needle = "InternalServerException" -> hay = "InternalServerException"
      [] OTHER -> FALSE

\* The outcomes of one bedrock invoke_agent call including the consumption of
\* its stream: the stream was read to its end, or an exception was raised.
AgentSuccess(completion, invocations) ==
    [kind |-> "ok", completion |-> completion, invocations |-> invocations,
     error_type |-> "", message |-> ""]

AgentRaise(error_type, message) ==
    [kind |-> "raise", completion |-> "", invocations |-> <<>>,
     error_type |-> error_type, message |-> message]

Completions ==
    {"", "text"}

ActionGroupTraces ==
    {<<>>, <<"/create-branch">>,
     <<"/create-branch", "/create-file", "/create-pr">>}

AgentOutcomes ==
    {AgentSuccess(c, i) : c \in Completions, i \in ActionGroupTraces}
    \cup {AgentRaise(t, m) : t \in ErrorTypes, m \in ErrorMessages}

is_retryable(error_type, error_msg) ==
    \/ Contains(error_msg, "dependencyFailedException")
    \/ Contains(error_type, "ThrottlingException")
    \/ Contains(error_type, "ServiceException")
    \/ Contains(error_type, "InternalServerException")

\* wait_time = 2**attempt
Backoff_Decreasing(attempt) ==
    16 \div (2 ^ attempt)

Backoff(attempt) ==
    2 ^ attempt

\* session_id = f"{session_id}-retry-{attempt}"
RetrySession(session_id, attempt) ==
    session_id \o <<"retry", attempt>>

\* The session id the iteration `attempt` invokes the agent with
AttemptSession(session_id, attempt) ==
    IF attempt > 0 THEN RetrySession(session_id, attempt) ELSE session_id

\* The except branch: TRUE when the loop continues with the next attempt
ShouldRetry_AnyError(outcome, attempt, max_retries) ==
    attempt < max_retries

ShouldRetry(outcome, attempt, max_retries) ==
    is_retryable(outcome.error_type, outcome.message) /\ attempt < max_retries

\* The dict returned by the iteration `attempt` when it returns
AttemptResult(outcome) ==
    IF outcome.kind = "ok"
    THEN [status |-> "success", completion |-> outcome.completion,
          action_group_invocations |-> outcome.invocations,
          message |-> "", error_type |-> ""]
    ELSE [status |-> "error", completion |-> "",
          action_group_invocations |-> <<>>,
          message |-> outcome.message, error_type |-> outcome.error_type]

\* invoke_agent is called
AgentCall ==
    /\ ag_pc \in {"idle", "returned"}
    /\ \E sid \in {<<"t1", "repo-scanner">>, <<"t1", "pr-manager">>},
          mr \in 0..MaxRetriesBound :
          /\ ag_session' = sid
          /\ ag_max_retries' = mr
    /\ ag_pc' = "loop"
    /\ ag_attempt' = 0
    /\ ag_sessions' = <<>>
    /\ ag_waits' = <<>>
    /\ ag_errors' = <<>>
    /\ ag_result' = NoResult

\* One iteration of `for attempt in range(max_retries + 1)`
AgentAttempt ==
    /\ ag_pc = "loop"
    /\ ag_attempt <= ag_max_retries
    /\ \E outcome \in AgentOutcomes :
          LET sid == AttemptSession(ag_session, ag_attempt) IN
          /\ ag_waits' = IF ag_attempt > 0
                         THEN Append(ag_waits, Backoff(ag_attempt))
                         ELSE ag_waits
          /\ ag_session' = sid
          /\ ag_sessions' = Append(ag_sessions, sid)
          /\ ag_errors' = IF outcome.kind = "raise"
                          THEN Append(ag_errors, outcome)
                          ELSE ag_errors
          /\ IF outcome.kind = "raise"
                /\ ShouldRetry(outcome, ag_attempt, ag_max_retries)
             THEN /\ ag_attempt' = ag_attempt + 1
                  /\ ag_pc' = "loop"
                  /\ ag_result' = ag_result
             ELSE /\ ag_attempt' = ag_attempt
                  /\ ag_pc' = "returned"
                  /\ ag_result' = AttemptResult(outcome)
    /\ UNCHANGED ag_max_retries

AgentInit ==
    /\ ag_pc = "idle"
    /\ ag_attempt = 0
    /\ ag_session = <<>>
    /\ ag_max_retries = DefaultMaxRetries
    /\ ag_sessions = <<>>
    /\ ag_waits = <<>>
    /\ ag_errors = <<>>
    /\ ag_result = NoResult

AgentNext ==
    \/ AgentCall /\ UNCHANGED <<pvars, hvars, cvars, fvars>>
    \/ AgentAttempt /\ UNCHANGED <<pvars, hvars, cvars, fvars>>

\* ------------------------------------------------------------------------
\* The publishing API: invoke_lambda(GITHUB_API_FUNCTION_NAME, payload)
\* ------------------------------------------------------------------------

\* An artifact: the text extract_yaml_content returned, by what the
\* controller looks at: which generation attempt produced it, its stripped
\* length and the verdict of is_yaml_complete.  The empty string has len 0.
NoContent ==
    [artifact |-> "none", attempt |-> 0, len |-> 0, complete |-> FALSE]

\* `if yaml_content:`
Truthy(content) ==
    content.len > 0

WorkflowPaths ==
    {".github/workflows/ci.yml", ".github/workflows/cd.yml"}

NoMessage ==
    "<no message key>"

\* Messages of error responses
PublishMessages ==
    {NoMessage,
     "Failed to retrieve GitHub token: AccessDenied",
     "422 Client Error: Unprocessable Entity for url",
     "500 Server Error: Internal Server Error for url",
     "A pull request already exists for owner:gen-ai/cicd-generation",
     "Pull Request ALREADY EXISTS",
     "Function not found"}

\* str.lower()
Lower_Identity(message) ==
    message

Lower(message) ==
    CASE message = "Failed to retrieve GitHub token: AccessDenied" ->
            "failed to retrieve github token: accessdenied"
      [] message = "422 Client Error: Unprocessable Entity for url" ->
            "422 client error: unprocessable entity for url"
      [] message = "500 Server Error: Internal Server Error for url" ->
            "500 server error: internal server error for url"
      [] message = "A pull request already exists for owner:gen-ai/cicd-generation" ->
            "a pull request already exists for owner:gen-ai/cicd-generation"
      [] message = "Pull Request ALREADY EXISTS" ->
            "pull request already exists"
      [] message = "Function not found" -> "function not found"
      [] OTHER -> message

\* `"already exists" in message`
ContainsAlreadyExists(message) ==
    message \in {"A pull request already exists for owner:gen-ai/cicd-generation",
                 "a pull request already exists for owner:gen-ai/cicd-generation",
                 "pull request already exists"}

\* dict.get("message", default)
GetMessage(resp, default) ==
    IF resp.message = NoMessage THEN default ELSE resp.message

\* What json.loads(response["Payload"].read()) can be: a dict in the direct
\* format, a dict in the Bedrock wrapper format (messageVersion 1.0) whose
\* body is the JSON text of the direct dict or is empty, or no dict at all.
Response(shape, status, message, files) ==
    [shape |-> shape, status |-> status, message |-> message, files |-> files]

NoFileResults ==
    [p \in WorkflowPaths |-> "none"]

NoResponse ==
    Response("none", "none", NoMessage, NoFileResults)

\* _normalize_github_lambda_response
normalize_github_lambda_response(response) ==
    CASE response.shape = "dict" -> response
      [] response.shape = "wrapped" -> [response EXCEPT !.shape = "dict"]
      [] response.shape = "wrapped_empty" ->
            Response("dict", "error", "Empty response body", NoFileResults)
      [] OTHER ->
            Response("dict", "error", "Unexpected response format", NoFileResults)

\* The repository: does the branch gen-ai/cicd-generation exist, the content
\* of the workflow files on it, is there an open pull request for it
FreshRepository ==
    [branch |-> FALSE, files |-> [p \in WorkflowPaths |-> NoContent],
     pr |-> FALSE]

GhStates ==
    {[branch |-> b, files |-> [p \in WorkflowPaths |-> NoContent], pr |-> r] :
        b \in BOOLEAN, r \in {FALSE}}
    \cup {[branch |-> TRUE, files |-> [p \in WorkflowPaths |-> NoContent],
           pr |-> TRUE]}

\* ---- src/lambda/github_api.py ------------------------------------------

\* What the environment decides in one invocation of the github_api Lambda:
\* does lambda_client.invoke raise, is the token retrieved, does the HTTP
\* request of the operation succeed, and for create_file the PUT of each file
GithubOracles(operation) ==
    IF operation = "create_file"
    THEN [invoke : {"ok", "raise"}, token : BOOLEAN, http : {"ok"},
          put : [WorkflowPaths -> {"ok", "fail"}]]
    ELSE [invoke : {"ok", "raise"}, token : BOOLEAN, http : {"ok", "fail"},
          put : {[p \in WorkflowPaths |-> "ok"]}]

\* create_branch(): True when the POST answers 201 (created) or 422
github_create_branch(repo, o) ==
    IF o.http = "ok"
    THEN [ok |-> TRUE, gh |-> [repo EXCEPT !.branch = TRUE]]
    ELSE [ok |-> FALSE, gh |-> repo]

\* create_or_update_file() for the files of the payload, in order
github_write_files(repo, files, o) ==
    LET written(p) == files[p].len > 0 /\ repo.branch /\ o.put[p] = "ok" IN
    [results |-> [p \in WorkflowPaths |->
                     IF files[p].len = 0 THEN "none"
                     ELSE IF written(p) THEN "success" ELSE "error"],
     gh |-> [repo EXCEPT !.files =
                [p \in WorkflowPaths |->
                    IF written(p) THEN files[p] ELSE repo.files[p]]]]

\* operation == "create_file": result = {"status": "success", "files": results}
github_create_file_status(results) ==
    "success"

\* create_pull_request(): raise_for_status raises on the 422 GitHub answers
\* when a pull request for the head branch exists
github_create_pull_request(repo, o) ==
    IF repo.pr
    THEN [raised |-> TRUE,
          message |-> "422 Client Error: Unprocessable Entity for url",
          gh |-> repo]
    ELSE IF o.http = "ok" /\ repo.branch
    THEN [raised |-> FALSE, message |-> NoMessage,
          gh |-> [repo EXCEPT !.pr = TRUE]]
    ELSE [raised |-> TRUE,
          message |-> "500 Server Error: Internal Server Error for url",
          gh |-> repo]

\* github_api.lambda_handler, direct invocation format
github_api_handler(operation, files, repo, o) ==
    IF ~o.token
    THEN [resp |-> Response("dict", "error",
                            "Failed to retrieve GitHub token: AccessDenied",
                            NoFileResults),
          gh |-> repo]
    ELSE CASE operation = "create_branch" ->
                LET b == github_create_branch(repo, o) IN
                [resp |-> Response("dict", IF b.ok THEN "success" ELSE "error",
                                   NoMessage, NoFileResults),
                 gh |-> b.gh]
           [] operation = "create_file" ->
                IF \A p \in WorkflowPaths : files[p].len = 0
                THEN [resp |-> Response("dict", "error",
                                        "files array is required",
                                        NoFileResults),
                      gh |-> repo]
                ELSE LET w == github_write_files(repo, files, o) IN
                     [resp |-> Response("dict",
                                        github_create_file_status(w.results),
                                        NoMessage, w.results),
                      gh |-> w.gh]
           [] OTHER ->
                LET c == github_create_pull_request(repo, o) IN
                [resp |-> Response("dict",
                                   IF c.raised THEN "error" ELSE "success",
                                   c.message, NoFileResults),
                 gh |-> c.gh]

\* ---- the publishing API as execute_github_workflow sees it --------------

\* The function behind GITHUB_API_FUNCTION_NAME is the github_api Lambda
\* ("github_api") or any implementation of the publishing contract
\* ("contract"), whose answers are then unconstrained.
ContractResponses ==
    {Response("dict", "success", NoMessage, NoFileResults),
     Response("wrapped", "success", NoMessage, NoFileResults),
     Response("wrapped_empty", "none", NoMessage, NoFileResults),
     Response("nondict", "none", NoMessage, NoFileResults)}
    \cup {Response("dict", "error", m, NoFileResults) : m \in PublishMessages}
    \cup {Response("wrapped", "error", m, NoFileResults) :
            m \in {"Pull Request ALREADY EXISTS",
                   "500 Server Error: Internal Server Error for url"}}

NominalOracle ==
    [invoke |-> "ok", token |-> TRUE, http |-> "ok",
     put |-> [p \in WorkflowPaths |-> "ok"]]

\* "github_api_nominal": the github_api Lambda when every call it makes and
\* every call of it goes well
PublishOracles(backend, operation) ==
    IF backend = "github_api"
    THEN {[resp |-> NoResponse, api |-> o] : o \in GithubOracles(operation)}
    ELSE IF backend = "github_api_nominal"
    THEN {[resp |-> NoResponse, api |-> NominalOracle]}
    ELSE {[resp |-> r,
           api |-> NominalOracle] :
            r \in ContractResponses}

\* invoke_lambda(GITHUB_API_FUNCTION_NAME, payload)
invoke_publishing_api(backend, operation, files, repo, o) ==
    IF backend = "contract"
    THEN [resp |-> o.resp, gh |-> repo]
    ELSE IF o.api.invoke = "raise"
    THEN [resp |-> Response("dict", "error", "Function not found",
                            NoFileResults),
          gh |-> repo]
    ELSE github_api_handler(operation, files, repo, o.api)

\* ------------------------------------------------------------------------
\* execute_github_workflow
\* ------------------------------------------------------------------------

NoOperations ==
    [op \in {"create_branch", "create_file", "create_pr"} |-> NoResponse]

\* The returned dict; issued: the operations invoked so far, in order
PublishOutcome(success, error, warnings, issued, operations) ==
    [success |-> success, error |-> error, warnings |-> warnings,
     issued |-> issued, operations |-> operations, status |-> "none"]

NoGithubResult ==
    PublishOutcome(FALSE, NoMessage, <<>>, <<>>, NoOperations)

\* files = [] ; if yaml_content_ci: ... ; if yaml_content_cd: ...
PublishFiles(content_ci, content_cd) ==
    [p \in WorkflowPaths |->
        IF p = ".github/workflows/ci.yml"
        THEN (IF Truthy(content_ci) THEN content_ci ELSE NoContent)
        ELSE (IF Truthy(content_cd) THEN content_cd ELSE NoContent)]

\* the handling of a create_pr response whose status is not success
pr_already_exists_CaseSensitive(pr_resp) ==
    ContainsAlreadyExists(Lower_Identity(GetMessage(pr_resp, "")))

pr_already_exists(pr_resp) ==
    ContainsAlreadyExists(Lower(GetMessage(pr_resp, "")))

\* the gate between create_file and create_pr
file_gate_Open(file_resp) ==
    TRUE

file_gate(file_resp) ==
    file_resp.status = "success"

\* execute_github_workflow is entered: `if not GITHUB_API_FUNCTION_NAME`
PublishEnter(configured, backend, content_ci, content_cd) ==
    /\ pub_call' = [configured |-> configured, backend |-> backend,
                    yaml_content_ci |-> content_ci,
                    yaml_content_cd |-> content_cd, gh |-> gh]
    /\ gh' = gh
    /\ IF ~configured
       THEN /\ pub_pc' = "returned"
            /\ github_result' =
                  PublishOutcome(FALSE,
                      "GITHUB_API_FUNCTION_NAME is not set in the environment",
                      <<>>, <<>>, NoOperations)
       ELSE /\ pub_pc' = "create_branch"
            /\ github_result' = NoGithubResult

\* The arguments of the call in progress
CallFiles ==
    PublishFiles(pub_call.yaml_content_ci, pub_call.yaml_content_cd)

\* branch_resp = ...; the files array is prepared
PublishCreateBranch ==
    /\ pub_pc = "create_branch"
    /\ \E o \in PublishOracles(pub_call.backend, "create_branch") :
          LET b == invoke_publishing_api(pub_call.backend, "create_branch",
                                         CallFiles, gh, o)
              branch_resp == normalize_github_lambda_response(b.resp)
              operations == [github_result.operations
                                EXCEPT !["create_branch"] = branch_resp]
              issued == Append(github_result.issued, "create_branch")
          IN
          /\ gh' = b.gh
          /\ IF branch_resp.status # "success"
             THEN /\ pub_pc' = "returned"
                  /\ github_result' =
                        PublishOutcome(FALSE,
                            GetMessage(branch_resp, "Branch creation failed"),
                            <<>>, issued, operations)
             ELSE IF \A p \in WorkflowPaths : ~Truthy(CallFiles[p])
             THEN /\ pub_pc' = "returned"
                  /\ github_result' =
                        PublishOutcome(FALSE,
                            "No workflow content provided (both CI and CD are empty)",
                            <<>>, issued, operations)
             ELSE /\ pub_pc' = "create_file"
                  /\ github_result' =
                        [github_result EXCEPT !.issued = issued,
                                              !.operations = operations]
    /\ UNCHANGED pub_call

\* file_resp = ...
PublishCreateFile ==
    /\ pub_pc = "create_file"
    /\ \E o \in PublishOracles(pub_call.backend, "create_file") :
          LET f == invoke_publishing_api(pub_call.backend, "create_file",
                                         CallFiles, gh, o)
              file_resp == normalize_github_lambda_response(f.resp)
              operations == [github_result.operations
                                EXCEPT !["create_file"] = file_resp]
              issued == Append(github_result.issued, "create_file")
          IN
          /\ gh' = f.gh
          /\ IF ~file_gate(file_resp)
             THEN /\ pub_pc' = "returned"
                  /\ github_result' =
                        PublishOutcome(FALSE,
                            GetMessage(file_resp, "Workflow file creation failed"),
                            <<>>, issued, operations)
             ELSE /\ pub_pc' = "create_pr"
                  /\ github_result' =
                        [github_result EXCEPT !.issued = issued,
                                              !.operations = operations]
    /\ UNCHANGED pub_call

\* pr_resp = ... and the return
PublishCreatePr ==
    /\ pub_pc = "create_pr"
    /\ \E o \in PublishOracles(pub_call.backend, "create_pr") :
          LET c == invoke_publishing_api(pub_call.backend, "create_pr",
                                         CallFiles, gh, o)
              pr_resp == normalize_github_lambda_response(c.resp)
              operations == [github_result.operations
                                EXCEPT !["create_pr"] = pr_resp]
              issued == Append(github_result.issued, "create_pr")
          IN
          /\ gh' = c.gh
          /\ pub_pc' = "returned"
          /\ IF pr_resp.status # "success"
             THEN IF pr_already_exists(pr_resp)
                  THEN github_result' =
                          PublishOutcome(TRUE, NoMessage,
                              <<"Pull request already exists for branch; reused existing PR">>,
                              issued,
                              [operations EXCEPT !["create_pr"].status = "warning"])
                  ELSE github_result' =
                          PublishOutcome(FALSE,
                              GetMessage(pr_resp, "PR creation failed"),
                              <<>>, issued, operations)
             ELSE github_result' =
                     PublishOutcome(TRUE, NoMessage, <<>>, issued, operations)
    /\ UNCHANGED pub_call

\* Contents execute_github_workflow is called with
PublishContents(artifact) ==
    {NoContent,
     [artifact |-> artifact, attempt |-> 1, len |-> 50, complete |-> TRUE]}

PublishIdle ==
    /\ gh \in GhStates
    /\ pub_pc = "idle"
    /\ pub_call = [configured |-> FALSE, backend |-> "none",
                   yaml_content_ci |-> NoContent, yaml_content_cd |-> NoContent,
                   gh |-> gh]
    /\ github_result = NoGithubResult

\* A call of execute_github_workflow
PublishCall ==
    /\ pub_pc = "idle"
    /\ \E configured \in BOOLEAN, backend \in {"github_api", "contract"},
          ci \in PublishContents("ci"), cd \in PublishContents("cd") :
          PublishEnter(configured, backend, ci, cd)

PublishNext ==
    \/ PublishCall /\ UNCHANGED <<avars, hvars, cvars, fvars>>
    \/ PublishCreateBranch /\ UNCHANGED <<avars, hvars, cvars, fvars>>
    \/ PublishCreateFile /\ UNCHANGED <<avars, hvars, cvars, fvars>>
    \/ PublishCreatePr /\ UNCHANGED <<avars, hvars, cvars, fvars>>

\* ------------------------------------------------------------------------
\* The Task State Store: create_task_record, update_task_status
\* ------------------------------------------------------------------------

\* An entry of `trace`
Event(kind, name, status, step, attempt, steps, info, out) ==
    [kind |-> kind, name |-> name, status |-> status, step |-> step,
     attempt |-> attempt, steps |-> steps, info |-> info, out |-> out,
     session |-> <<>>]

NoFeedback ==
    [kind |-> "None", errors |-> <<>>]

\* create_task_record(task_id, repo_url) is called
CreateEvent ==
    Event("store", "create_task_record", "in_progress", "", 0, -1, "",
          NoFeedback)

\* update_task_status(task_id, status, result) is called; result holds the
\* keys "error" (error # ""), "step" (step # "") and "steps" (steps # -1,
\* the length of the list)
UpdateEvent(status, error, step, steps) ==
    Event("store", "update_task_status", status, step, 0, steps, error,
          NoFeedback)

NoRecord ==
    [exists |-> FALSE, created |-> FALSE, status |-> "none", error |-> "",
     step |-> "", steps |-> -1]

\* table.put_item(Item=...) when it succeeds: the item is replaced
put_item(record, e) ==
    [exists |-> TRUE, created |-> TRUE, status |-> e.status, error |-> "",
     step |-> "", steps |-> -1]

\* table.update_item(...) when it succeeds: status and result are replaced
update_item(record, e) ==
    [exists |-> TRUE, created |-> record.created, status |-> e.status,
     error |-> e.info, step |-> e.step, steps |-> e.steps]

\* `except Exception as e: print(...)`: does the store function raise when
\* the DynamoDB call fails (ok = FALSE)
store_raises_Propagates(ok) ==
    ~ok

store_raises(ok) ==
    FALSE

\* The record after the store call e, whose DynamoDB call succeeds iff ok
StoreApply(record, e, ok) ==
    IF ~ok THEN record
    ELSE IF e.name = "create_task_record" THEN put_item(record, e)
    ELSE update_item(record, e)

StoreEvents(evs) ==
    SelectSeq(evs, LAMBDA e : e.kind = "store")

RECURSIVE ApplyWrites(_, _, _, _)
ApplyWrites(record, evs, oks, k) ==
    IF evs = <<>> THEN record
    ELSE ApplyWrites(StoreApply(record, Head(evs), oks[k]), Tail(evs), oks,
                     k + 1)

\* ------------------------------------------------------------------------
\* lambda_handler of the orchestrator
\* ------------------------------------------------------------------------

AgentNames ==
    {"repo_scanner", "pipeline_designer", "security_compliance",
     "yaml_generator", "pr_manager"}

FunctionNames ==
    {"repo_ingestor", "static_analyzer", "template_validator", "github_api"}

\* The stages of the pipeline, by the step names lambda_handler gives them
StageNames ==
    {"repo_ingestor", "repo_scanner", "static_analyzer", "pipeline_designer",
     "security_compliance", "yaml_generator_ci", "yaml_generator_cd",
     "pr_manager", "github_operations"}

Unbound ==
    [artifact |-> "unbound", attempt |-> 0, len |-> 0, complete |-> FALSE]

NoReturn ==
    [status |-> "none", message |-> ""]

Return(status, message) ==
    [status |-> status, message |-> message]

ReturnEvent(status, message) ==
    Event("return", "lambda_handler", status, "", 0, -1, message, NoFeedback)

\* `workflow_steps.append(...)`
append_AtTheFront(steps, step) ==
    <<step>> \o steps

append(steps, step) ==
    Append(steps, step)

\* workflow_steps.append({"step": name, "result": result}); the step name
\* f"{name}_{attempt}" of a generation attempt is the pair (name, attempt)
Step_Unnumbered(name, attempt, status, invocations) ==
    [step |-> name, attempt |-> 0, status |-> status,
     invocations |-> invocations]

Step(name, attempt, status, invocations) ==
    [step |-> name, attempt |-> attempt, status |-> status,
     invocations |-> invocations]

AppendEvent(name, attempt) ==
    Event("append", name, "", name, attempt, -1, "", NoFeedback)

\* invoke_agent(agent_ids[name], ...) was called for the stage `step`
\* with the feedback `feedback` in its prompt and returned `result`
AgentEvent(name, step, attempt, session_id, feedback, result) ==
    [Event("agent", name, result.status, step, attempt, -1,
           result.completion, feedback) EXCEPT !.session = session_id]

\* invoke_lambda(function, ...) was called and returned status / out
LambdaEvent(name, step, attempt, status, out) ==
    Event("lambda", name, status, step, attempt, -1, out, NoFeedback)

\* ---- invoke_agent as the handler calls it -------------------------------

\* One iteration of the loop of invoke_agent
AttemptStep(attempt, session_id, max_retries, outcome) ==
    [session_id |-> AttemptSession(session_id, attempt),
     waits |-> IF attempt > 0 THEN <<Backoff(attempt)>> ELSE <<>>,
     retry |-> outcome.kind = "raise"
               /\ ShouldRetry(outcome, attempt, max_retries),
     result |-> AttemptResult(outcome)]

\* invoke_agent(agent_id, alias, session_id, input_text, max_retries) when
\* the remote invocation of iteration i ends as oracle[i + 1]
RECURSIVE invoke_agent_from(_, _, _, _)
\* session_id = f"{task_id}-repo-scanner", and alike for the other stages
StageSessionId(session) ==
    <<"task", session>>

\* session_id = f"{task_id}-yaml-generator-ci-attempt-{ci_attempt}"
LoopSessionId_Unnumbered(session, attempt) ==
    <<"task", session>>

LoopSessionId(session, attempt) ==
    <<"task", session, attempt>>

RECURSIVE SessionText(_)
\* The text of a session id: the f-strings of lines 138, 701, 977
SessionText(session_id) ==
    IF session_id[Len(session_id) - 1] = "retry"
    THEN SessionText(SubSeq(session_id, 1, Len(session_id) - 2))
            \o "-retry-" \o ToString(session_id[Len(session_id)])
    ELSE IF Len(session_id) = 3
    THEN session_id[1] \o "-" \o session_id[2] \o "-"
            \o ToString(session_id[3])
    ELSE session_id[1] \o "-" \o session_id[2]

invoke_agent_from(attempt, session_id, max_retries, oracle) ==
    LET it == AttemptStep(attempt, session_id, max_retries,
                          oracle[attempt + 1])
    IN IF it.retry
       THEN LET rest == invoke_agent_from(attempt + 1, it.session_id,
                                          max_retries, oracle)
            IN [result |-> rest.result,
                sessions |-> <<it.session_id>> \o rest.sessions,
                waits |-> it.waits \o rest.waits]
       ELSE [result |-> it.result, sessions |-> <<it.session_id>>,
             waits |-> it.waits]

invoke_agent(session_id, oracle) ==
    invoke_agent_from(0, session_id, DefaultMaxRetries, oracle)

\* What the agents answer
GeneratedTexts ==
    {"short yaml", "truncated yaml", "complete yaml"}

Throttled ==
    AgentRaise("ThrottlingException",
               "An error occurred (accessDeniedException) when calling InvokeAgent")

Rejected ==
    AgentRaise("ValidationException",
               "An error occurred (accessDeniedException) when calling InvokeAgent")

StageOutcomes(name) ==
    {Throttled, Rejected}
    \cup (CASE name = "yaml_generator" ->
                  {AgentSuccess(c, <<>>) : c \in GeneratedTexts}
            [] name = "pr_manager" ->
                  {AgentSuccess(c, i) : c \in Completions,
                                        i \in ActionGroupTraces}
            [] OTHER -> {AgentSuccess("text", <<>>)})

\* The outcomes of the successive remote invocations of one invoke_agent
\* call: k throttled invocations, then f
StageOracles(name) ==
    {[i \in 1..(DefaultMaxRetries + 1) |-> IF i <= k THEN Throttled ELSE f] :
        k \in 0..DefaultMaxRetries, f \in StageOutcomes(name)}

\* The oracles of the agent `name` in the stage `stage`, in the environment
\* of this run
EnvOracles(stage, name) ==
    IF stage \in env.unreliable
    THEN StageOracles(name)
    ELSE {[i \in 1..(DefaultMaxRetries + 1) |->
             AgentSuccess(IF name = "yaml_generator" THEN "complete yaml"
                          ELSE "text", <<>>)]}

\* ---- invoke_lambda for the deterministic stages -------------------------

\* invoke_lambda(function, payload): the status of the dict it returns
\* ("error" also when lambda_client.invoke raised)
FunctionStatuses ==
    {"success", "error"}

\* What invoke_lambda(TEMPLATE_VALIDATOR_FUNCTION_NAME, ...) returns: the
\* verdict of the validator, or {"status": "error", ...} without "valid"
ValidatorResponses ==
    {[kind |-> "verdict", valid |-> TRUE, errors |-> <<>>],
     [kind |-> "verdict", valid |-> FALSE,
      errors |-> <<"Missing required field: jobs">>],
     [kind |-> "invoke_error", valid |-> FALSE, errors |-> <<>>]}

EnvStatuses(name) ==
    IF name \in env.unreliable THEN FunctionStatuses ELSE {"success"}

EnvValidatorResponses(stage) ==
    IF stage \in env.unreliable \/ "template_validator" \in env.unreliable
    THEN ValidatorResponses
    ELSE {[kind |-> "verdict", valid |-> TRUE, errors |-> <<>>]}

\* ---- artifacts ----------------------------------------------------------

max_ci_attempts_Raised ==
    2 * 2

max_ci_attempts ==
    3

max_cd_attempts_Raised ==
    2 * 2

max_cd_attempts ==
    3

\* `len(yaml_content.strip()) < 50`
MinYamlLength ==
    50

\* extract_yaml_content(raw_output), by the text the generator returned
extract_yaml_content(text, artifact, attempt) ==
    CASE text = "complete yaml" ->
            [artifact |-> artifact, attempt |-> attempt,
             len |-> MinYamlLength, complete |-> TRUE]
      [] text = "truncated yaml" ->
            [artifact |-> artifact, attempt |-> attempt,
             len |-> MinYamlLength, complete |-> FALSE]
      [] text = "short yaml" ->
            [artifact |-> artifact, attempt |-> attempt,
             len |-> MinYamlLength - 1, complete |-> TRUE]
      [] text = "short truncated yaml" ->
            [artifact |-> artifact, attempt |-> attempt,
             len |-> MinYamlLength - 1, complete |-> FALSE]
      [] OTHER -> NoContent

\* is_yaml_complete(yaml_content), by the verdict the text carries
is_yaml_complete_Always(content) ==
    Truthy(content)

is_yaml_complete(content) ==
    Truthy(content) /\ content.complete

\* `not yaml_content or len(yaml_content.strip()) < 50`
MissingOrTooShort_OnlyMissing(content) ==
    ~Truthy(content)

MissingOrTooShort(content) ==
    ~Truthy(content) \/ content.len < MinYamlLength

Feedback(kind, errors) ==
    [kind |-> kind, errors |-> errors]

\* errors = summary.errors or syntax.errors;
\* "\n".join(errors) if errors else "... workflow validation failed"
ValidatorFeedback_ErrorsOnly(validator_result) ==
    IF validator_result.errors # <<>>
    THEN Feedback("validator errors", validator_result.errors)
    ELSE NoFeedback

ValidatorFeedback(validator_result) ==
    IF validator_result.errors # <<>>
    THEN Feedback("validator errors", validator_result.errors)
    ELSE Feedback("workflow validation failed", <<>>)

\* `if attempt > 1 and validation_errors:` the feedback put into the prompt
PromptFeedback_FromThird(attempt, validation_errors) ==
    IF attempt > 2 /\ validation_errors # NoFeedback
    THEN validation_errors ELSE NoFeedback

PromptFeedback(attempt, validation_errors) ==
    IF attempt > 1 /\ validation_errors # NoFeedback
    THEN validation_errors ELSE NoFeedback

\* ---- the steps of lambda_handler ----------------------------------------

genvars ==
    <<yaml_content_ci, yaml_content_cd, ci_attempt, cd_attempt,
      ci_validation_errors, cd_validation_errors>>

\* The number of DynamoDB writes that failed in a row after the writes
\* k.. of a step, of which write i succeeds iff oks[i], when `count` had
\* failed in a row before; MaxStoreFailures + 1 when the run is not explored
RECURSIVE StoreOutage(_, _, _)
StoreOutage(count, oks, k) ==
    IF k > Len(oks) THEN count
    ELSE IF oks[k] THEN StoreOutage(0, oks, k + 1)
    ELSE IF count >= MaxStoreFailures THEN MaxStoreFailures + 1
    ELSE StoreOutage(count + 1, oks, k + 1)

\* The end of a step: the events evs happened in this order, the handler
\* goes on at pc2 (with return value res2 when pc2 = "returned").  Each store
\* call among evs succeeds or fails at DynamoDB.  In mode "reliable" every
\* store call succeeds and the store itself is left out of the step.
HFinish(mode, evs, pc2, res2) ==
    LET writes == StoreEvents(evs)
        n == Len(writes)
        outage(oks) == StoreOutage(store_failures, oks, 1)
        raised(oks) == \E k \in 1..n : store_raises(oks[k])
        control(oks) ==
            IF raised(oks)
            THEN /\ trace' = trace \o evs
                       \o <<ReturnEvent("error", "store write raised")>>
                 /\ h_pc' = "returned"
                 /\ h_result' = Return("error", "store write raised")
            ELSE /\ trace' = trace \o evs
                 /\ h_pc' = pc2
                 /\ h_result' = res2
    IN IF mode = "reliable"
       THEN control([k \in 1..n |-> TRUE])
       ELSE \E oks \in [1..n -> BOOLEAN] :
               /\ outage(oks) <= MaxStoreFailures
               /\ control(oks)
               /\ task_record' = ApplyWrites(task_record, writes, oks, 1)
               /\ store_failures' = outage(oks)

\* `except Exception as e:` of lambda_handler
ExceptionExit_Propagates(mode, evs, error) ==
    HFinish(mode, evs, "raised", NoReturn)

ExceptionExit(mode, evs, error) ==
    HFinish(mode,
            evs \o <<UpdateEvent("failed", error, "", -1),
                     ReturnEvent("error", error)>>,
            "returned", Return("error", error))

InProgress_BeforeAppend(steps) ==
    UpdateEvent("in_progress", "", "", Len(steps) - 1)

InProgress(steps) ==
    UpdateEvent("in_progress", "", "", Len(steps))

\* line 656: `if not repo_url`
repo_url_missing_Never(ev) ==
    FALSE

repo_url_missing(ev) ==
    ~ev.has_repo_url

\* lines 651-671: input validation and create_task_record
HInvoke(mode) ==
    /\ h_pc = "invoked"
    /\ IF repo_url_missing(event)
       THEN HFinish(mode, <<ReturnEvent("error", "repo_url required")>>,
                    "returned", Return("error", "repo_url required"))
       ELSE HFinish(mode, <<CreateEvent>>, "repo_ingestor", NoReturn)
    /\ UNCHANGED <<event, env, workflow_steps, genvars, pr_body>>

\* lines 673-696: repo ingestor
HRepoIngestor(mode) ==
    /\ h_pc = "repo_ingestor"
    /\ IF "repo_ingestor" \notin env.functions
       THEN /\ HFinish(mode, <<>>, "repo_scanner", NoReturn)
            /\ UNCHANGED workflow_steps
       ELSE \E status \in EnvStatuses("repo_ingestor") :
               LET steps == append(workflow_steps,
                                   Step("repo_ingestor", 0, status, <<>>))
               IN /\ workflow_steps' = steps
                  /\ HFinish(mode,
                        <<LambdaEvent("repo_ingestor", "repo_ingestor", 0,
                                      status, ""),
                          AppendEvent("repo_ingestor", 0),
                          InProgress(steps)>>,
                        "repo_scanner", NoReturn)
    /\ UNCHANGED <<event, env, genvars, pr_body>>

\* line 730: `if result.get("status") != "success"`
scanner_failed_Never(result) ==
    FALSE

scanner_failed(result) ==
    result.status # "success"

\* lines 699-743: repo scanner
HRepoScanner(mode) ==
    /\ h_pc = "repo_scanner"
    /\ IF "repo_scanner" \notin event.agent_ids
       THEN /\ HFinish(mode, <<>>, "static_analyzer", NoReturn)
            /\ UNCHANGED workflow_steps
       ELSE \E result \in {invoke_agent(StageSessionId("repo-scanner"),
                                         oracle).result :
                               oracle \in EnvOracles("repo_scanner",
                                                     "repo_scanner")} :
               LET steps == append(workflow_steps,
                                   Step("repo_scanner", 0, result.status,
                                        <<>>))
                   evs == <<AgentEvent("repo_scanner", "repo_scanner", 0,
                                       StageSessionId("repo-scanner"),
                                       NoFeedback, result),
                            AppendEvent("repo_scanner", 0),
                            InProgress(steps)>>
               IN /\ workflow_steps' = steps
                  /\ IF scanner_failed(result)
                     THEN HFinish(mode,
                             evs \o <<UpdateEvent("failed",
                                          "Repo scanner failed",
                                          "repo_scanner", -1),
                                      ReturnEvent("error",
                                          "Repository scanning failed")>>,
                             "returned",
                             Return("error", "Repository scanning failed"))
                     ELSE HFinish(mode, evs, "static_analyzer", NoReturn)
    /\ UNCHANGED <<event, env, genvars, pr_body>>

\* lines 745-784: static analyzer
HStaticAnalyzer(mode) ==
    /\ h_pc = "static_analyzer"
    /\ IF "static_analyzer" \notin env.functions
       THEN /\ HFinish(mode, <<>>, "pipeline_designer", NoReturn)
            /\ UNCHANGED workflow_steps
       ELSE \E status \in EnvStatuses("static_analyzer") :
               LET steps == append(workflow_steps,
                                   Step("static_analyzer", 0, status, <<>>))
               IN /\ workflow_steps' = steps
                  /\ HFinish(mode,
                        <<LambdaEvent("static_analyzer", "static_analyzer", 0,
                                      status, ""),
                          AppendEvent("static_analyzer", 0),
                          InProgress(steps)>>,
                        "pipeline_designer", NoReturn)
    /\ UNCHANGED <<event, env, genvars, pr_body>>

\* A stage that invokes an agent and goes on whatever the result is
\* (pipeline_designer, security_compliance)
AdvisoryStage(mode, name, session, next) ==
    IF name \notin event.agent_ids
    THEN /\ HFinish(mode, <<>>, next, NoReturn)
         /\ UNCHANGED workflow_steps
    ELSE \E result \in {invoke_agent(StageSessionId(session),
                                     oracle).result :
                            oracle \in EnvOracles(name, name)} :
            LET steps == append(workflow_steps,
                                Step(name, 0, result.status, <<>>))
            IN /\ workflow_steps' = steps
               /\ HFinish(mode,
                     <<AgentEvent(name, name, 0, StageSessionId(session),
                                  NoFeedback, result),
                       AppendEvent(name, 0),
                       InProgress(steps)>>,
                     next, NoReturn)

\* lines 807-825: pipeline designer
HPipelineDesigner(mode) ==
    /\ h_pc = "pipeline_designer"
    /\ AdvisoryStage(mode, "pipeline_designer", "pipeline-designer",
                     "security_compliance")
    /\ UNCHANGED <<event, env, genvars, pr_body>>

\* lines 827-868: security and compliance
HSecurityCompliance(mode) ==
    /\ h_pc = "security_compliance"
    /\ AdvisoryStage(mode, "security_compliance", "security-compliance",
                     "yaml_generator")
    /\ UNCHANGED <<event, env, genvars, pr_body>>

\* lines 871-974: `if "yaml_generator" in agent_ids:` and the set-up of the
\* CI loop
HYamlGenerator(mode) ==
    /\ h_pc = "yaml_generator"
    /\ IF "yaml_generator" \in event.agent_ids
       THEN /\ yaml_content_ci' = NoContent
            /\ ci_validation_errors' = NoFeedback
            /\ ci_attempt' = 1
            /\ HFinish(mode, <<>>, "ci_loop", NoReturn)
       ELSE /\ UNCHANGED <<yaml_content_ci, ci_validation_errors, ci_attempt>>
            /\ HFinish(mode, <<>>, "pr_manager", NoReturn)
    /\ UNCHANGED <<event, env, workflow_steps, yaml_content_cd, cd_attempt,
                   cd_validation_errors, pr_body>>

\* The texts of the two generation loops
LoopText(artifact) ==
    IF artifact = "ci"
    THEN [step |-> "yaml_generator_ci",
          attempt_step |-> "yaml_generator_ci_attempt",
          session |-> "yaml-generator-ci-attempt",
          generation_failed |-> "CI workflow generation failed",
          too_short_feedback |-> "CI workflow is missing or too short",
          too_short |-> "CI workflow content is empty or too short",
          incomplete_feedback |-> "CI workflow appears incomplete or truncated",
          incomplete |-> "CI workflow is incomplete",
          invalid |-> "CI workflow validation failed"]
    ELSE [step |-> "yaml_generator_cd",
          attempt_step |-> "yaml_generator_cd_attempt",
          session |-> "yaml-generator-cd-attempt",
          generation_failed |-> "CD workflow generation failed",
          too_short_feedback |-> "CD workflow is missing or too short",
          too_short |-> "CD workflow content is empty or too short",
          incomplete_feedback |-> "CD workflow appears incomplete",
          incomplete |-> "CD workflow is incomplete",
          invalid |-> "CD workflow validation failed"]

\* One iteration of a generation loop (lines 976-1029, 1049-1107): the
\* agent answers as oracle says, the validator (when reached) as
\* validator_result.  exit: "continue", "break" or "return".
\* lines 1028-1029, 1106-1107: an accepted artifact leaves the loop
accepted_exit_NextAttempt(last) ==
    IF last THEN "break" ELSE "continue"

accepted_exit(last) ==
    "break"

GenerationAttempt(artifact, attempt, max_attempts, content, errors, steps, oracle, validator_result) ==
    LET text == LoopText(artifact)
        feedback == PromptFeedback(attempt, errors)
        session_id == LoopSessionId(text.session, attempt)
        result == invoke_agent(session_id, oracle).result
        steps2 == append(steps, Step(text.attempt_step, attempt,
                                     result.status, <<>>))
        evs == <<AgentEvent("yaml_generator", text.step, attempt,
                            session_id, feedback,
                            result),
                 AppendEvent(text.attempt_step, attempt),
                 InProgress(steps2)>>
        last == attempt = max_attempts
        extracted == extract_yaml_content(result.completion, artifact,
                                          attempt)
        validated == "template_validator" \in env.functions
        vevs == IF validated
                THEN <<LambdaEvent("template_validator", text.step, attempt,
                                   validator_result.kind,
                                   IF validator_result.valid THEN "valid"
                                   ELSE "invalid")>>
                ELSE <<>>
        out(exit, c, e, events, message) ==
            [exit |-> exit, content |-> c, errors |-> e, steps |-> steps2,
             evs |-> events, message |-> message]
        giveup(c, e, events, message) ==
            IF last
            THEN out("return", c, e,
                     events \o <<ReturnEvent("error", message)>>, message)
            ELSE out("continue", c, e, events, "")
    IN IF result.status # "success"
       THEN IF last
            THEN out("return", content, errors,
                     evs \o <<UpdateEvent("failed", text.generation_failed,
                                          text.step, -1),
                              ReturnEvent("error", text.generation_failed)>>,
                     text.generation_failed)
            ELSE out("continue", content, errors, evs, "")
       ELSE IF MissingOrTooShort(extracted)
       THEN giveup(extracted, Feedback(text.too_short_feedback, <<>>), evs,
                   text.too_short)
       ELSE IF ~is_yaml_complete(extracted)
       THEN giveup(extracted, Feedback(text.incomplete_feedback, <<>>), evs,
                   text.incomplete)
       ELSE IF validated /\ ~validator_result.valid
       THEN giveup(extracted, ValidatorFeedback(validator_result),
                   evs \o vevs, text.invalid)
       ELSE out(accepted_exit(last), extracted, errors, evs \o vevs, "")

LoopNext(mode, a, after) ==
    CASE a.exit = "return" ->
            HFinish(mode, a.evs, "returned", Return("error", a.message))
      [] a.exit = "continue" ->
            HFinish(mode, a.evs, h_pc, NoReturn)
      [] OTHER ->
            HFinish(mode, a.evs, after, NoReturn)

\* lines 1045-1049: `cd_validation_errors = None` and
\* `for cd_attempt in range(1, max_cd_attempts + 1)`, whatever the CI loop
\* left in ci_attempt and ci_validation_errors
cd_loop_start_Carried(ci_attempts, ci_errors) ==
    [attempt |-> ci_attempts, errors |-> ci_errors]

cd_loop_start(ci_attempts, ci_errors) ==
    [attempt |-> 1, errors |-> NoFeedback]

\* lines 976-1047: an iteration of the CI loop; after the break, the set-up
\* of the CD loop
HCiAttempt(mode) ==
    /\ h_pc = "ci_loop"
    /\ ci_attempt \in 1..max_ci_attempts
    /\ \E a \in {GenerationAttempt("ci", ci_attempt, max_ci_attempts,
                                    yaml_content_ci, ci_validation_errors,
                                    workflow_steps, oracle, validator_result) :
                      oracle \in EnvOracles("yaml_generator_ci",
                                            "yaml_generator"),
                      validator_result \in
                          EnvValidatorResponses("yaml_generator_ci")} :
             /\ workflow_steps' = a.steps
             /\ yaml_content_ci' = a.content
             /\ ci_validation_errors' = a.errors
             /\ ci_attempt' = IF a.exit = "continue" THEN ci_attempt + 1
                              ELSE ci_attempt
             /\ IF a.exit = "break"
                THEN /\ yaml_content_cd' = NoContent
                     /\ cd_validation_errors'
                           = cd_loop_start(ci_attempt, a.errors).errors
                     /\ cd_attempt'
                           = cd_loop_start(ci_attempt, a.errors).attempt
                ELSE UNCHANGED <<yaml_content_cd, cd_validation_errors,
                                 cd_attempt>>
             /\ LoopNext(mode, a, "cd_loop")
    /\ UNCHANGED <<event, env, pr_body>>

\* lines 1049-1123: an iteration of the CD loop
HCdAttempt(mode) ==
    /\ h_pc = "cd_loop"
    /\ cd_attempt \in 1..max_cd_attempts
    /\ \E a \in {GenerationAttempt("cd", cd_attempt, max_cd_attempts,
                                    yaml_content_cd, cd_validation_errors,
                                    workflow_steps, oracle, validator_result) :
                      oracle \in EnvOracles("yaml_generator_cd",
                                            "yaml_generator"),
                      validator_result \in
                          EnvValidatorResponses("yaml_generator_cd")} :
             /\ workflow_steps' = a.steps
             /\ yaml_content_cd' = a.content
             /\ cd_validation_errors' = a.errors
             /\ cd_attempt' = IF a.exit = "continue" THEN cd_attempt + 1
                              ELSE cd_attempt
             /\ LoopNext(mode, a, "pr_manager")
    /\ UNCHANGED <<event, env, yaml_content_ci, ci_validation_errors,
                   ci_attempt, pr_body>>

\* lines 1125-1183: PR manager and the default PR body
HPrManager(mode) ==
    /\ h_pc = "pr_manager"
    /\ IF "pr_manager" \notin event.agent_ids
       THEN /\ pr_body' = "default"
            /\ HFinish(mode, <<>>, "publish", NoReturn)
            /\ UNCHANGED workflow_steps
       ELSE IF yaml_content_ci = Unbound
       THEN \* line 1142 reads yaml_content_ci: UnboundLocalError
            /\ ExceptionExit(mode, <<>>, "UnboundLocalError")
            /\ UNCHANGED <<workflow_steps, pr_body>>
       ELSE \E result \in {invoke_agent(StageSessionId("pr-manager"),
                                         oracle).result :
                               oracle \in EnvOracles("pr_manager",
                                                     "pr_manager")} :
               LET steps == append(workflow_steps,
                                   Step("pr_manager", 0, result.status,
                                        result.action_group_invocations))
               IN /\ workflow_steps' = steps
                  /\ pr_body' = IF result.completion # "" THEN "agent"
                                ELSE "default"
                  /\ HFinish(mode,
                        <<AgentEvent("pr_manager", "pr_manager", 0,
                                     StageSessionId("pr-manager"),
                                     NoFeedback, result),
                          AppendEvent("pr_manager", 0),
                          InProgress(steps)>>,
                        "publish", NoReturn)
    /\ UNCHANGED <<event, env, genvars>>

\* The operations the agent of the last pr_manager step reported
ObservedInvocations(steps) ==
    IF \E i \in 1..Len(steps) : steps[i].step = "pr_manager"
    THEN LET i == CHOOSE i \in 1..Len(steps) : steps[i].step = "pr_manager"
         IN {steps[i].invocations[j] : j \in 1..Len(steps[i].invocations)}
    ELSE {}

RequiredOperations ==
    {"/create-branch", "/create-file", "/create-pr"}

\* line 1185: `if yaml_content_ci and yaml_content_cd:`
ShouldPublish_UnlessObserved(ci, cd, steps) ==
    /\ Truthy(ci) /\ Truthy(cd)
    /\ ~(RequiredOperations \subseteq ObservedInvocations(steps))

ShouldPublish(ci, cd, steps) ==
    Truthy(ci) /\ Truthy(cd)

MissingContent ==
    "One or both workflow contents missing; cannot update GitHub"

\* lines 1185-1197 and 1230-1249: the call of execute_github_workflow, or
\* the exit without it
HPublish(mode) ==
    /\ h_pc = "publish"
    /\ IF yaml_content_ci = Unbound \/ yaml_content_cd = Unbound
       THEN \* line 1185 reads yaml_content_ci: UnboundLocalError
            /\ ExceptionExit(mode, <<>>, "UnboundLocalError")
            /\ UNCHANGED <<gh, pub_pc, pub_call, github_result>>
       ELSE IF ShouldPublish(yaml_content_ci, yaml_content_cd, workflow_steps)
       THEN /\ PublishEnter("github_api" \in env.functions, env.backend,
                            yaml_content_ci, yaml_content_cd)
            /\ HFinish(mode, <<>>, "publishing", NoReturn)
       ELSE /\ HFinish(mode,
                  <<UpdateEvent("failed", MissingContent, "yaml_generator", -1),
                    ReturnEvent("error", MissingContent)>>,
                  "returned", Return("error", MissingContent))
            /\ UNCHANGED <<gh, pub_pc, pub_call, github_result>>
    /\ UNCHANGED <<event, env, workflow_steps, genvars, pr_body>>

\* The invocations of the publishing API execute_github_workflow made
PublishEvents(issued, operations) ==
    [i \in 1..Len(issued) |->
        LambdaEvent("github_api", issued[i], 0, operations[issued[i]].status,
                    operations[issued[i]].message)]

\* line 1214: `github_result.get("success")`
publish_succeeded_Always(result) ==
    TRUE

publish_succeeded(result) ==
    result.success

\* lines 1198-1269: execute_github_workflow has returned
HPublishReturn(mode) ==
    /\ h_pc = "publishing"
    /\ pub_pc = "returned"
    /\ LET status == IF github_result.success THEN "success" ELSE "error"
           steps == append(workflow_steps,
                           Step("github_operations", 0, status, <<>>))
           evs == PublishEvents(github_result.issued,
                                github_result.operations)
                  \o <<AppendEvent("github_operations", 0),
                       InProgress(steps)>>
           \* github_result.get("error", "GitHub operations failed")
           error == IF github_result.error = NoMessage
                    THEN "GitHub operations failed"
                    ELSE github_result.error
       IN /\ github_result' = [github_result EXCEPT !.status = status]
          /\ workflow_steps' = steps
          /\ IF ~publish_succeeded(github_result)
             THEN HFinish(mode,
                     evs \o <<UpdateEvent("failed", error,
                                          "github_operations", Len(steps)),
                              ReturnEvent("error", error)>>,
                     "returned", Return("error", error))
             ELSE HFinish(mode,
                     evs \o <<UpdateEvent("completed", "", "", Len(steps)),
                              ReturnEvent("success", "")>>,
                     "returned", Return("success", ""))
    /\ UNCHANGED <<event, env, genvars, pr_body, gh, pub_pc, pub_call>>

\* What may answer badly: the services of a stage, or the validator, which
\* both generation loops call
UnreliableServices ==
    StageNames \cup {"template_validator"}

\* The events and environments lambda_handler is explored for
Configurations ==
    {c \in [missing : SUBSET (AgentNames \cup FunctionNames),
            unreliable : SUBSET UnreliableServices] :
        Cardinality(c.missing) + Cardinality(c.unreliable) <= MaxDeviations}

HandlerStart ==
    /\ workflow_steps = <<>>
    /\ trace = <<>>
    /\ task_record = NoRecord
    /\ store_failures = 0
    /\ yaml_content_ci = Unbound
    /\ yaml_content_cd = Unbound
    /\ ci_attempt = 0
    /\ cd_attempt = 0
    /\ ci_validation_errors = NoFeedback
    /\ cd_validation_errors = NoFeedback
    /\ pr_body = ""
    /\ h_result = NoReturn

\* lambda_handler(event, context) is invoked
HandlerInit ==
    /\ \E c \in Configurations, r \in BOOLEAN :
          /\ event = [has_repo_url |-> r,
                      agent_ids |-> AgentNames \ c.missing]
          /\ env = [functions |-> FunctionNames \ c.missing,
                    unreliable |-> c.unreliable,
                    backend |-> IF "github_operations" \in c.unreliable
                                THEN "github_api" ELSE "github_api_nominal"]
    /\ gh = FreshRepository
    /\ h_pc = "invoked"
    /\ HandlerStart

\* The stages whose failure lambda_handler only logs
AdvisoryStages ==
    {"repo_ingestor", "static_analyzer", "pipeline_designer",
     "security_compliance", "pr_manager"}

\* Environments in which one of these stages may fail, with and without an
\* identifier for the yaml_generator agent
DegradedConfigurations ==
    {[missing |-> m, unreliable |-> {s}] :
        m \in {{}, {"yaml_generator"}}, s \in AdvisoryStages}

\* lambda_handler(event, context) is invoked in such an environment
HandlerDegraded ==
    /\ \E c \in DegradedConfigurations :
          /\ event = [has_repo_url |-> TRUE,
                      agent_ids |-> AgentNames \ c.missing]
          /\ env = [functions |-> FunctionNames,
                    unreliable |-> c.unreliable,
                    backend |-> "github_api_nominal"]
    /\ gh = FreshRepository
    /\ h_pc = "invoked"
    /\ HandlerStart

\* lambda_handler is not running
HandlerIdle ==
    /\ event = [has_repo_url |-> TRUE, agent_ids |-> AgentNames]
    /\ env = [functions |-> FunctionNames, unreliable |-> {},
              backend |-> "github_api"]
    /\ h_pc = "idle"
    /\ HandlerStart

\* ------------------------------------------------------------------------
\* Two invocations of lambda_handler, for two tasks with the same repo_url
\* ------------------------------------------------------------------------

\* task_id = event.get("task_id") or context.aws_request_id
TaskIds ==
    {"task-1", "task-2"}

\* Key={"task_id": task_id} and Item={"task_id": task_id, ...}
record_key_OfTheRepository(task_id) ==
    "task-1"

record_key(task_id) ==
    task_id

\* The workflow text the generation loops of task t ended with
TaskContent(t, artifact) ==
    [artifact |-> artifact, attempt |-> 1, len |-> MinYamlLength,
     complete |-> TRUE, task |-> t]

\* The files array execute_github_workflow builds for task t
TaskFiles(t) ==
    PublishFiles(TaskContent(t, "ci"), TaskContent(t, "cd"))

\* The steps appended before the publish step
StagesBeforePublish ==
    {"repo_ingestor", "repo_scanner", "static_analyzer", "pipeline_designer",
     "security_compliance", "yaml_generator_ci", "yaml_generator_cd",
     "pr_manager"}

\* A task: position, len(workflow_steps), DynamoDB writes that failed in a
\* row, the record as this task's own writes leave it, github_result and
\* the returned status
TaskState(pc, steps, failures, written, result, returned) ==
    [pc |-> pc, steps |-> steps, failures |-> failures, written |-> written,
     result |-> result, returned |-> returned]

TasksIdle ==
    /\ tasks = [t \in TaskIds |->
                   TaskState("idle", 0, 0, NoRecord, NoGithubResult, "none")]
    /\ table = [t \in TaskIds |-> NoRecord]

TasksInvoked ==
    /\ tasks = [t \in TaskIds |->
                   TaskState("invoked", 0, 0, NoRecord, NoGithubResult,
                             "none")]
    /\ table = [t \in TaskIds |-> NoRecord]

\* Task t calls the store functions evs and goes on as `next` says; a
\* DynamoDB call that fails is swallowed by the store function
TaskWrite(t, evs, next) ==
    \E oks \in [1..Len(evs) -> BOOLEAN] :
        LET outage == StoreOutage(tasks[t].failures, oks, 1) IN
        /\ outage <= MaxStoreFailures
        /\ table' = [table EXCEPT ![record_key(t)] =
                        ApplyWrites(@, evs, oks, 1)]
        /\ tasks' = [tasks EXCEPT ![t] =
                        [next EXCEPT !.failures = outage,
                                     !.written = ApplyWrites(tasks[t].written,
                                                             evs, oks, 1)]]

\* lines 651-660: create_task_record(task_id, repo_url)
TaskInvoke(t) ==
    /\ tasks[t].pc = "invoked"
    /\ TaskWrite(t, <<CreateEvent>>, [tasks[t] EXCEPT !.pc = "stages"])
    /\ UNCHANGED gh

\* lines 673-1183: a stage before the publish step, when it goes well: the
\* step is appended and written
TaskStage(t) ==
    /\ tasks[t].pc = "stages"
    /\ LET steps == tasks[t].steps + 1 IN
       TaskWrite(t, <<UpdateEvent("in_progress", "", "", steps)>>,
                 [tasks[t] EXCEPT !.steps = steps,
                                  !.pc = IF steps
                                            = Cardinality(StagesBeforePublish)
                                         THEN "create_branch" ELSE "stages"])
    /\ UNCHANGED gh

\* execute_github_workflow, lines 531-627: the operation `operation` is
\* invoked for the files `files` on the repository `repo`
publish_operation(operation, files, result, repo, o) ==
    LET call == invoke_publishing_api("github_api", operation, files, repo, o)
        resp == normalize_github_lambda_response(call.resp)
        operations == [result.operations EXCEPT ![operation] = resp]
        issued == Append(result.issued, operation)
        return(outcome) ==
            [pc |-> "publish_returned", result |-> outcome, gh |-> call.gh]
        failed(default) ==
            return(PublishOutcome(FALSE, GetMessage(resp, default), <<>>,
                                  issued, operations))
        goon(next) ==
            [pc |-> next,
             result |-> [result EXCEPT !.issued = issued,
                                       !.operations = operations],
             gh |-> call.gh]
    IN CASE operation = "create_branch" ->
               IF resp.status # "success"
               THEN failed("Branch creation failed")
               ELSE goon("create_file")
         [] operation = "create_file" ->
               IF ~file_gate(resp)
               THEN failed("Workflow file creation failed")
               ELSE goon("create_pr")
         [] OTHER ->
               IF resp.status = "success"
               THEN return(PublishOutcome(TRUE, NoMessage, <<>>, issued,
                                          operations))
               ELSE IF pr_already_exists(resp)
               THEN return(PublishOutcome(TRUE, NoMessage,
                        <<"Pull request already exists for branch; reused existing PR">>,
                        issued,
                        [operations EXCEPT !["create_pr"].status = "warning"]))
               ELSE failed("PR creation failed")

\* lines 1185-1197: task t publishes to the branch gen-ai/cicd-generation of
\* the repository, one operation of execute_github_workflow at a time
TaskPublish(t) ==
    /\ tasks[t].pc \in {"create_branch", "create_file", "create_pr"}
    /\ \E r \in {publish_operation(tasks[t].pc, TaskFiles(t), tasks[t].result,
                                   gh, o) :
                    o \in PublishOracles("github_api", tasks[t].pc)} :
          /\ gh' = r.gh
          /\ tasks' = [tasks EXCEPT ![t].pc = r.pc, ![t].result = r.result]
    /\ UNCHANGED table

\* lines 1198-1269: the publish step is appended and written, then the
\* final status
TaskPublishReturn(t) ==
    /\ tasks[t].pc = "publish_returned"
    /\ LET steps == tasks[t].steps + 1
           error == IF tasks[t].result.error = NoMessage
                    THEN "GitHub operations failed"
                    ELSE tasks[t].result.error
       IN IF publish_succeeded(tasks[t].result)
          THEN TaskWrite(t, <<UpdateEvent("in_progress", "", "", steps),
                              UpdateEvent("completed", "", "", steps)>>,
                         [tasks[t] EXCEPT !.steps = steps, !.pc = "returned",
                                          !.returned = "success"])
          ELSE TaskWrite(t, <<UpdateEvent("in_progress", "", "", steps),
                              UpdateEvent("failed", error, "github_operations",
                                          steps)>>,
                         [tasks[t] EXCEPT !.steps = steps, !.pc = "returned",
                                          !.returned = "error"])
    /\ UNCHANGED gh

TasksNext ==
    \/ \E t \in TaskIds : TaskInvoke(t) /\ UNCHANGED <<avars, sharedp, hvars, fvars>>
    \/ \E t \in TaskIds : TaskStage(t) /\ UNCHANGED <<avars, sharedp, hvars, fvars>>
    \/ \E t \in TaskIds : TaskPublish(t) /\ UNCHANGED <<avars, sharedp, hvars, fvars>>
    \/ \E t \in TaskIds :
          TaskPublishReturn(t) /\ UNCHANGED <<avars, sharedp, hvars, fvars>>

\* ------------------------------------------------------------------------
\* invoke_lambda
\* ------------------------------------------------------------------------

\* The function returned a dict with the key "status"
FunctionPayload(status) ==
    [kind |-> "payload", status |-> status, error_type |-> "",
     message |-> ""]

\* The function itself raised (template_validator does on YAML that is not
\* a mapping): lambda_client.invoke returns, and the payload is the error
\* document {"errorMessage": ..., "errorType": ...}, without "status"
FunctionError ==
    [kind |-> "payload", status |-> "none", error_type |-> "",
     message |-> "errorMessage"]

\* The outcomes of lambda_client.invoke(...), response["Payload"].read() and
\* json.loads together: a payload, or an exception raised by one of them
LambdaOutcomes ==
    {FunctionPayload(s) : s \in FunctionStatuses}
    \cup {FunctionError}
    \cup {[kind |-> "raise", status |-> "none", error_type |-> t,
           message |-> m] : t \in ErrorTypes, m \in ErrorMessages}

\* invoke_lambda(function_name, payload) when the k-th remote invocation it
\* makes ends as oracle[k]; calls: the remote invocations made
invoke_lambda(function_name, oracle) ==
    LET outcome == oracle[1] IN
    IF outcome.kind = "raise"
    THEN [status |-> "error", message |-> outcome.message, calls |-> 1]
    ELSE [status |-> outcome.status, message |-> outcome.message,
          calls |-> 1]

LambdaCall ==
    /\ ag_pc = "idle"
    /\ fn_pc = "idle"
    /\ fn_pc' = "invoked"
    /\ \E f \in FunctionNames,
          oracle \in [1..(DefaultMaxRetries + 1) -> LambdaOutcomes] :
          fn_args' = [function_name |-> f, oracle |-> oracle]
    /\ UNCHANGED fn_result

LambdaReturns ==
    /\ fn_pc = "invoked"
    /\ fn_pc' = "returned"
    /\ fn_result' = invoke_lambda(fn_args.function_name, fn_args.oracle)
    /\ UNCHANGED fn_args

\* invoke_agent and invoke_lambda, each called on its own
CallsNext ==
    \/ fn_pc = "idle" /\ AgentCall /\ UNCHANGED <<pvars, hvars, cvars, fvars>>
    \/ fn_pc = "idle" /\ AgentAttempt /\ UNCHANGED <<pvars, hvars, cvars, fvars>>
    \/ LambdaCall /\ UNCHANGED <<avars, pvars, hvars, cvars>>
    \/ LambdaReturns /\ UNCHANGED <<avars, pvars, hvars, cvars>>

\* ------------------------------------------------------------------------
\* invoke_agent reading the event stream of each invocation
\* ------------------------------------------------------------------------

\* An event of response["completion"]: a chunk with the bytes of a text
\* fragment, a trace part of the agent that reports an action group
\* invocation (by its apiPath), or another trace part
StreamEvents ==
    {[kind |-> "chunk", data |-> f] : f \in {"a", "b"}}
    \cup {[kind |-> "invocation", data |-> p] :
             p \in {"/create-branch", "/create-pr"}}
    \cup {[kind |-> "trace", data |-> ""]}

\* What one remote invocation yields: the events read, and how the reading
\* ends: at the end of the stream, or by an exception of that type (raised
\* by the invocation itself when no event was read)
Streams ==
    {[events |-> e, end |-> x] :
        e \in UNION {[1..n -> StreamEvents] : n \in 0..MaxStream},
        x \in {"end", "ThrottlingException", "ValidationException"}}

\* lines 149-151: completion = "" ; action_group_invocations = [], at the
\* start of every attempt, whatever the attempt before had read
stream_start_Carried(previous) ==
    previous

stream_start(previous) ==
    [completion |-> "", invocations |-> <<>>]

\* lines 152-184: the body of `for event in response["completion"]`
read_event(acc, e) ==
    CASE e.kind = "chunk" ->
            [acc EXCEPT !.completion = acc.completion \o e.data]
      [] e.kind = "invocation" ->
            [acc EXCEPT !.invocations = Append(acc.invocations, e.data)]
      [] OTHER -> acc

RECURSIVE read_stream(_, _, _)
\* the loop over the events k, k + 1, ... of the stream
read_stream(events, k, acc) ==
    IF k > Len(events) THEN acc
    ELSE read_stream(events, k + 1, read_event(acc, events[k]))

RECURSIVE invoke_agent_streams(_, _, _, _)
\* invoke_agent from the iteration `attempt` on, when the remote invocations
\* yield `streams`; previous: what the iteration before had accumulated
invoke_agent_streams(attempt, max_retries, streams, previous) ==
    LET stream == streams[attempt + 1]
        acc == read_stream(stream.events, 1, stream_start(previous))
        outcome ==
            IF stream.end = "end"
            THEN AgentSuccess(acc.completion, acc.invocations)
            ELSE AgentRaise(stream.end,
                     "An error occurred (accessDeniedException) when calling InvokeAgent")
    IN IF outcome.kind = "raise" /\ ShouldRetry(outcome, attempt, max_retries)
       THEN invoke_agent_streams(attempt + 1, max_retries, streams, acc)
       ELSE AttemptResult(outcome)

\* invoke_agent is called with max_retries 0 or 1; every invocation but the
\* last one made is throttled, before or while its stream is read, and a
\* throttled invocation is the last one only when no retry is left
StreamCallInvoked ==
    /\ fn_pc = "invoked"
    /\ \E max_retries \in 0..1 : \E n \in 1..(max_retries + 1) :
          \E streams \in [1..n -> Streams] :
             /\ \A i \in 1..(n - 1) :
                    streams[i].end = "ThrottlingException"
             /\ n <= max_retries =>
                    streams[n].end # "ThrottlingException"
             /\ fn_args = [max_retries |-> max_retries, streams |-> streams]
    /\ fn_result = NoResult

StreamCallReturns ==
    /\ fn_pc = "invoked"
    /\ fn_pc' = "returned"
    /\ fn_result' = invoke_agent_streams(0, fn_args.max_retries,
                                         fn_args.streams,
                                         [completion |-> "",
                                          invocations |-> <<>>])
    /\ UNCHANGED <<fn_args, avars, pvars, hvars, cvars>>

\* ------------------------------------------------------------------------
\* extract_yaml_content and is_yaml_complete on texts
\* ------------------------------------------------------------------------

\* A text is a sequence of chunks joined by newlines; a chunk is one line,
\* or the nine lines of a block of steps.  The chunks stand for
\*   "fence_yaml"  ```yaml             "fence"   ```
\*   "prose"       Here is the workflow you asked for:
\*   "blank"       (two spaces)        "name"    name: CD
\*   "deploy"        deploy:
\*   "steps"       nine lines of steps, the last one
\*                       run: aws ecs update-service --force-new-deployment
\*   "step"              - run: aws ecs update-service
\*   "quote"             - run: echo "deploying
\*   "interp"            image: ${{
\*   "brace"             with: {
\*   "guard"                 exit 1
\*   "checks"      nine lines of steps that only validate, the last three
\*                           if [[ -z "$IMAGE" ]]; then
\*                             echo "Error: image missing"
\*                             exit 1
ContentChunks ==
    {"blank", "name", "deploy", "steps", "step", "quote", "interp", "brace",
     "guard", "checks"}

\* Texts without a fence, of at most MaxChunks chunks
Contents ==
    UNION {[1..n -> ContentChunks] : n \in 0..MaxChunks}

\* len(chunk) and len(chunk.splitlines())
ChunkSize(chunk) ==
    CASE chunk = "blank" -> [chars |-> 2, lines |-> 1]
      [] chunk = "name" -> [chars |-> 8, lines |-> 1]
      [] chunk = "deploy" -> [chars |-> 9, lines |-> 1]
      [] chunk = "steps" -> [chars |-> 303, lines |-> 9]
      [] chunk = "step" -> [chars |-> 35, lines |-> 1]
      [] chunk = "quote" -> [chars |-> 28, lines |-> 1]
      [] chunk = "interp" -> [chars |-> 18, lines |-> 1]
      [] chunk = "brace" -> [chars |-> 15, lines |-> 1]
      [] chunk = "guard" -> [chars |-> 18, lines |-> 1]
      [] chunk = "checks" -> [chars |-> 260, lines |-> 9]
      [] chunk = "fence_yaml" -> [chars |-> 7, lines |-> 1]
      [] chunk = "fence" -> [chars |-> 3, lines |-> 1]
      [] OTHER -> [chars |-> 35, lines |-> 1]

\* text.strip(), up to the indentation of the first line
strip(text) ==
    LET solid == {i \in 1..Len(text) : text[i] # "blank"}
    IN IF solid = {} THEN <<>>
       ELSE SubSeq(text, CHOOSE i \in solid : \A j \in solid : i <= j,
                   CHOOSE i \in solid : \A j \in solid : j <= i)

\* extract_yaml_content(text).  The pattern ```(?:yaml)?\s*\n(.*?)(?:\n```|$)
\* matches at the first fence that a newline follows; \s*\n is greedy and
\* takes every blank line after it, with the newline that ends the last of
\* them; the group runs to the first newline after that which a fence
\* follows, or to the end of the text.
extract_yaml_text(text) ==
    LET fences == {i \in 1..Len(text) : text[i] \in {"fence", "fence_yaml"}}
        openers == {i \in fences : i < Len(text)}
        first(S) == CHOOSE i \in S : \A j \in S : i <= j
        fenced_match ==
            LET open == first(openers)
                solid == {i \in (open + 1)..Len(text) : text[i] # "blank"}
                start == IF solid = {} THEN Len(text) + 1 ELSE first(solid)
                closers == {k \in fences : k > start}
                end == IF closers = {} THEN Len(text) ELSE first(closers) - 1
            IN SubSeq(text, start, end)
        capturing == {i \in 1..Len(text) : text[i] = "name"}
        yaml_lines ==
            IF capturing = {} THEN <<>>
            ELSE SubSeq(text, first(capturing), Len(text))
    IN IF text = <<>> THEN <<>>
       ELSE IF openers # {} THEN strip(fenced_match)
       ELSE strip(yaml_lines)

RECURSIVE CharsAfter(_, _)
\* The characters of yaml_content after the chunk k, newlines included
CharsAfter(yaml_content, k) ==
    IF k >= Len(yaml_content) THEN 0
    ELSE 1 + ChunkSize(yaml_content[k + 1]).chars
           + CharsAfter(yaml_content, k + 1)

RECURSIVE LinesFrom(_, _)
\* The lines of the chunks k, k + 1, ... that are neither blank nor comments
LinesFrom(yaml_content, k) ==
    IF k > Len(yaml_content) THEN 0
    ELSE (IF yaml_content[k] = "blank" THEN 0
          ELSE ChunkSize(yaml_content[k]).lines)
         + LinesFrom(yaml_content, k + 1)

\* `if len(deploy_lines) < 10`
deploy_too_short_AtTen(deploy_lines) ==
    deploy_lines <= 10

deploy_too_short(deploy_lines) ==
    deploy_lines < 10

\* lines 424-432: the keywords of the list that the chunk contains, as
\* `keyword in deploy_section.lower()` finds them
DeploymentKeywords(chunk) ==
    CASE chunk = "deploy" -> {"deploy"}
      [] chunk = "quote" -> {"deploy"}
      [] chunk = "step" ->
            {"aws ecs update-service", "ecs update-service", "update-service"}
      [] chunk = "steps" ->
            {"aws ecs update-service", "ecs update-service", "update-service",
             "force-new-deployment", "deploy"}
      [] OTHER -> {}

\* lines 420-447: the deploy section from rfind("deploy:") on ends with
\* validation and names no deployment action.  has_deployment_action looks
\* for the keywords in the whole section, its first line "deploy:" included.
ends_with_validation(yaml_content, deploy_start) ==
    LET section == deploy_start..Len(yaml_content)
        has_deployment_action ==
            \E k \in section : DeploymentKeywords(yaml_content[k]) # {}
        exit_in_last_200 ==
            \E k \in section : /\ yaml_content[k] \in {"guard", "checks"}
                               /\ CharsAfter(yaml_content, k) + 6 <= 200
        meaningful == {k \in section : yaml_content[k] # "blank"}
        last_meaningful ==
            yaml_content[CHOOSE k \in meaningful :
                            \A j \in meaningful : j <= k]
        ecs_update == \E k \in section : yaml_content[k] \in {"step", "steps"}
    IN /\ ~has_deployment_action
       /\ exit_in_last_200
       /\ last_meaningful \in {"guard", "checks"}
       /\ ~ecs_update

\* is_yaml_complete(yaml_content)
is_yaml_text_complete(yaml_content) ==
    LET last_line == yaml_content[Len(yaml_content)]
        last_50_chars ==
            {k \in 1..Len(yaml_content) : CharsAfter(yaml_content, k) < 50}
        deploys ==
            {k \in 1..Len(yaml_content) : yaml_content[k] = "deploy"}
        deploy_start == CHOOSE k \in deploys : \A j \in deploys : j <= k
        lines == Len(yaml_content)
                 + 8 * Cardinality({k \in 1..Len(yaml_content) :
                                       yaml_content[k] \in {"steps", "checks"}})
    IN /\ yaml_content # <<>>
       /\ last_line \notin {"interp", "quote"}
       /\ \A k \in last_50_chars : yaml_content[k] \notin {"brace", "interp"}
       /\ deploys # {} => ~ends_with_validation(yaml_content, deploy_start)
       /\ (lines < 150 /\ deploys # {}) =>
              ~deploy_too_short(LinesFrom(yaml_content, deploy_start))

\* The text an agent returns around the workflow `content`
AgentTexts(content) ==
    {<<open>> \o content \o <<"fence">> : open \in {"fence", "fence_yaml"}}
    \cup {<<"prose", open>> \o content \o <<"fence", "prose">> :
             open \in {"fence", "fence_yaml"}}
    \cup {<<"fence_yaml">> \o content, <<"prose">> \o content}

ExtractInvoked ==
    /\ fn_pc = "invoked"
    /\ \E content \in Contents : \E text \in AgentTexts(content) :
          fn_args = [content |-> content, text |-> text]
    /\ fn_result = <<>>

\* yaml_content = extract_yaml_content(raw_output) ;
\* is_yaml_complete(yaml_content)
ExtractReturns ==
    /\ fn_pc = "invoked"
    /\ fn_pc' = "returned"
    /\ LET yaml_content == extract_yaml_text(fn_args.text)
       IN fn_result' = [yaml_content |-> yaml_content,
                        complete |-> is_yaml_text_complete(yaml_content)]
    /\ UNCHANGED <<fn_args, avars, pvars, hvars, cvars>>

\* ------------------------------------------------------------------------
\* src/lambda/template_validator.py
\* ------------------------------------------------------------------------

\* The workflow text handed to the validator, by what the validator looks
\* at: can extract_yaml_content find YAML in it, what yaml.load makes of it
\* ("error": YAMLError, "empty": nothing, "mapping": a dict,
\* "scalar": a string or a list), which top-level
\* keys the dict has, what its one job lacks, whether the text names a
\* password or secret without a reference, and which permissions the job
\* asks for.  "absent": the event has no yaml_content.
YamlDocument(extractable, parse, name, on, jobs, hardcoded, contents_write, id_token_write) ==
    [extractable |-> extractable, parse |-> parse, name |-> name, on |-> on,
     jobs |-> jobs, hardcoded |-> hardcoded,
     contents_write |-> contents_write, id_token_write |-> id_token_write]

JobShapes ==
    {"missing", "complete", "no runs-on", "no steps", "step without action"}

YamlDocuments ==
    {YamlDocument(x, "mapping", n, o, j, h, c, FALSE) :
        x \in BOOLEAN, n \in BOOLEAN, o \in BOOLEAN, j \in JobShapes,
        h \in BOOLEAN, c \in BOOLEAN}
    \cup {YamlDocument(TRUE, "mapping", TRUE, TRUE, "complete", FALSE, c, TRUE) :
            c \in BOOLEAN}
    \cup {YamlDocument(x, p, FALSE, FALSE, "missing", FALSE, FALSE, FALSE) :
            x \in BOOLEAN, p \in {"error", "empty", "absent", "scalar"}}

ValidationLevels ==
    {"strict", "normal", "lenient", "unknown"}

\* validate_yaml_syntax(yaml_content)
validate_yaml_syntax(doc) ==
    LET w0 == IF doc.extractable THEN <<>>
              ELSE <<"Could not extract YAML from content, validating entire content">>
        when(c, m) == IF c THEN <<m>> ELSE <<>>
    IN CASE doc.parse = "empty" ->
               [valid |-> FALSE, errors |-> <<"YAML is empty or invalid">>,
                warnings |-> w0]
         [] doc.parse = "error" ->
               [valid |-> FALSE, errors |-> <<"YAML syntax error">>,
                warnings |-> w0]
         [] OTHER ->
               LET errors ==
                       when(~doc.on, "Workflow trigger (on) is missing")
                       \o when(doc.jobs = "missing",
                               "Workflow jobs section is missing")
                       \o when(doc.jobs = "no runs-on", "Job missing runs-on")
                       \o when(doc.jobs = "no steps", "Job missing steps")
                       \o when(doc.jobs = "step without action",
                               "Job step missing uses or run")
                   warnings ==
                       w0 \o when(~doc.name, "Workflow name is missing")
                          \o when(doc.hardcoded,
                                  "Potential hardcoded secrets detected")
               IN [valid |-> Len(errors) = 0, errors |-> errors,
                   warnings |-> warnings]

\* validate_permissions(yaml_content)
validate_permissions(doc) ==
    LET when(c, m) == IF c THEN <<m>> ELSE <<>>
    IN CASE doc.parse = "empty" -> [warnings |-> <<>>]
         [] doc.parse = "error" ->
               [warnings |-> <<"Could not parse YAML for permissions check">>]
         [] OTHER ->
               [warnings |->
                   when(doc.jobs # "missing" /\ doc.contents_write,
                        "Job has write permissions to contents")
                   \o when(doc.jobs # "missing" /\ doc.id_token_write,
                           "Job has OIDC write permissions")]

\* "Determine overall validity based on validation level"
is_valid_ByErrorsOnly(validation_level, all_errors, all_warnings) ==
    Len(all_errors) = 0

is_valid(validation_level, all_errors, all_warnings) ==
    CASE validation_level = "strict" ->
            Len(all_errors) = 0 /\ Len(all_warnings) = 0
      [] validation_level = "normal" -> Len(all_errors) = 0
      [] OTHER -> TRUE

\* What template_validator.lambda_handler returns: a verdict, or the error
\* "yaml_content required"; wrapped: in the Bedrock response format.
\* "raised": it returns nothing, parsed.get("jobs", {}) of validate_permissions
\* raises AttributeError when the YAML is not a mapping
ValidatorReturn(kind, wrapped, status, valid, errors, warnings) ==
    [kind |-> kind, wrapped |-> wrapped, status |-> status, valid |-> valid,
     errors |-> errors, warnings |-> warnings]

NoValidatorReturn ==
    ValidatorReturn("none", FALSE, "none", FALSE, <<>>, <<>>)

\* template_validator.lambda_handler(event, context)
template_validator(doc, validation_level, by_agent) ==
    IF doc.parse = "absent"
    THEN ValidatorReturn("error", by_agent, "error", FALSE, <<>>, <<>>)
    ELSE IF doc.parse = "scalar"
    THEN ValidatorReturn("raised", FALSE, "none", FALSE, <<>>, <<>>)
    ELSE LET syntax_result == validate_yaml_syntax(doc)
             permissions_result == validate_permissions(doc)
             all_errors == syntax_result.errors
             all_warnings == syntax_result.warnings
                                \o permissions_result.warnings
             valid == is_valid(validation_level, all_errors, all_warnings)
         IN ValidatorReturn("verdict", by_agent,
                            IF valid THEN "success" ELSE "validation_failed",
                            valid, all_errors, all_warnings)

\* A function called on its own: its arguments and what it returned
FnIdle ==
    /\ fn_pc = "idle"
    /\ fn_args = <<>>
    /\ fn_result = <<>>

ValidatorInvoked ==
    /\ fn_pc = "invoked"
    /\ fn_args \in [doc : YamlDocuments, validation_level : ValidationLevels,
                    by_agent : BOOLEAN]
    /\ fn_result = NoValidatorReturn

ValidatorReturns ==
    /\ fn_pc = "invoked"
    /\ fn_pc' = "returned"
    /\ fn_result' = template_validator(fn_args.doc, fn_args.validation_level,
                                       fn_args.by_agent)
    /\ UNCHANGED fn_args

ValidatorNext ==
    ValidatorReturns /\ UNCHANGED <<avars, pvars, hvars, cvars>>

\* ------------------------------------------------------------------------
\* src/scripts/trigger_workflow_generation.py: monitor_progress
\* ------------------------------------------------------------------------

\* --poll-interval, in seconds
PollIntervals ==
    1..2

\* --max-wait, in seconds
MaxWaits ==
    0..MaxWait

\* The seconds table.get_item may take
GetItemLatencies ==
    0..1

\* `if status in ["completed", "failed"]`
terminal_status_OnlyCompleted(status) ==
    status = "completed"

terminal_status(status) ==
    status \in {"completed", "failed"}

\* The return values of monitor_progress
MonitorResult(status) ==
    [status |-> status]

\* The locals of monitor_progress; now: time.time() - start_time in whole
\* seconds; reads: what every poll so far came back with, in order
MonitorFrame(poll_interval, max_wait, now, elapsed, response, reads) ==
    [poll_interval |-> poll_interval, max_wait |-> max_wait, now |-> now,
     elapsed |-> elapsed, response |-> response, reads |-> reads]

\* start_time = time.time(); elapsed = 0
MonitorInvoked ==
    /\ fn_pc = "while"
    /\ \E poll_interval \in PollIntervals, max_wait \in MaxWaits :
          fn_args = MonitorFrame(poll_interval, max_wait, 0, 0, "none", <<>>)
    /\ fn_result = MonitorResult("none")

\* `while elapsed < max_wait:` and the return after the loop
MonitorWhile ==
    /\ fn_pc = "while"
    /\ IF fn_args.elapsed < fn_args.max_wait
       THEN /\ fn_pc' = "get_item"
            /\ fn_result' = fn_result
       ELSE /\ fn_pc' = "returned"
            /\ fn_result' = MonitorResult("timeout")
    /\ UNCHANGED <<fn_args, task_record>>

\* response = table.get_item(Key={"task_id": task_id}): it raises, or it
\* answers with the item of the task if there is one
MonitorGetItem ==
    /\ fn_pc = "get_item"
    /\ \E latency \in GetItemLatencies, raises \in BOOLEAN :
          LET response == IF raises THEN "error"
                          ELSE IF task_record.exists THEN task_record.status
                          ELSE "absent"
          IN
          /\ fn_args' = [fn_args EXCEPT !.now = @ + latency,
                                        !.response = response,
                                        !.reads = Append(@, response)]
          /\ fn_pc' = IF raises THEN "except" ELSE "item"
    /\ UNCHANGED <<fn_result, task_record>>

\* `if "Item" in response:` ... `if status in ["completed", "failed"]: return`
MonitorItem ==
    /\ fn_pc = "item"
    /\ IF fn_args.response # "absent" /\ terminal_status(fn_args.response)
       THEN /\ fn_pc' = "returned"
            /\ fn_result' = MonitorResult(fn_args.response)
       ELSE /\ fn_pc' = "sleep"
            /\ fn_result' = fn_result
    /\ UNCHANGED <<fn_args, task_record>>

\* time.sleep(poll_interval); elapsed = int(time.time() - start_time)
MonitorSleep ==
    /\ fn_pc \in {"sleep", "except"}
    /\ fn_args' = [fn_args EXCEPT !.now = @ + fn_args.poll_interval,
                                  !.elapsed = fn_args.now + fn_args.poll_interval]
    /\ fn_pc' = "while"
    /\ UNCHANGED <<fn_result, task_record>>

\* Ctrl+C: `except KeyboardInterrupt` around the body of the loop; outside
\* of it the interrupt leaves monitor_progress as an exception
MonitorInterrupt ==
    /\ fn_pc \in {"while", "get_item", "item", "sleep", "except"}
    /\ fn_pc' = "returned"
    /\ fn_result' = IF fn_pc \in {"get_item", "item", "sleep"}
                    THEN MonitorResult("monitoring_stopped")
                    ELSE MonitorResult("KeyboardInterrupt")
    /\ UNCHANGED <<fn_args, task_record>>

\* The orchestrator, running on its own, writes the status of the task:
\* create_task_record, update_task_status
OrchestratorWrites ==
    /\ fn_pc # "returned"
    /\ \E status \in {"in_progress", "completed", "failed"} :
          /\ status # task_record.status
          /\ ~task_record.exists => status = "in_progress"
          /\ task_record' = [task_record EXCEPT !.exists = TRUE,
                                                !.created = TRUE,
                                                !.status = status]
    /\ UNCHANGED <<fn_pc, fn_args, fn_result>>

MonitorNext ==
    \/ MonitorWhile /\ UNCHANGED <<avars, pvars, hctl, store_failures, cvars>>
    \/ MonitorGetItem /\ UNCHANGED <<avars, pvars, hctl, store_failures, cvars>>
    \/ MonitorItem /\ UNCHANGED <<avars, pvars, hctl, store_failures, cvars>>
    \/ MonitorSleep /\ UNCHANGED <<avars, pvars, hctl, store_failures, cvars>>
    \/ MonitorInterrupt /\ UNCHANGED <<avars, pvars, hctl, store_failures, cvars>>
    \/ OrchestratorWrites /\ UNCHANGED <<avars, pvars, hctl, store_failures, cvars>>

\* ------------------------------------------------------------------------
\* One iteration of a generation loop on its own
\* ------------------------------------------------------------------------

\* The texts the generator may return: those of the runs, and one that is
\* both too short and truncated
AttemptTexts ==
    GeneratedTexts \cup {"short truncated yaml"}

\* The outcomes of the invocations of one invoke_agent call: k throttled
\* invocations, then a failure or a text
AttemptOracles ==
    {[i \in 1..(DefaultMaxRetries + 1) |-> IF i <= k THEN Throttled ELSE f] :
        k \in 0..DefaultMaxRetries,
        f \in {Throttled, Rejected}
               \cup {AgentSuccess(c, <<>>) : c \in AttemptTexts}}

\* What the loop holds when the attempt begins: nothing (first attempt, or
\* the generator failed so far), or the truncated text of the attempt before
\* with its diagnostic
PriorAttempts(artifact, attempt) ==
    {[content |-> NoContent, errors |-> NoFeedback]}
    \cup (IF attempt > 1
          THEN {[content |->
                    extract_yaml_content("truncated yaml", artifact,
                                         attempt - 1),
                 errors |->
                    Feedback(LoopText(artifact).incomplete_feedback, <<>>)]}
          ELSE {})

\* for ci_attempt in range(1, max_ci_attempts + 1), and the same for cd
AttemptInvoked ==
    /\ fn_pc = "invoked"
    /\ \E artifact \in {"ci", "cd"}, attempt \in 1..max_ci_attempts :
          \E prior \in PriorAttempts(artifact, attempt),
             oracle \in AttemptOracles,
             validator_result \in ValidatorResponses :
             fn_args = [artifact |-> artifact, attempt |-> attempt,
                        content |-> prior.content, errors |-> prior.errors,
                        oracle |-> oracle,
                        validator_result |-> validator_result]
    /\ fn_result = <<>>

\* The body of the loop runs once
AttemptReturns ==
    /\ fn_pc = "invoked"
    /\ fn_pc' = "returned"
    /\ LET text == LoopText(fn_args.artifact)
           steps == [j \in 1..(fn_args.attempt - 1) |->
                        Step(text.attempt_step, j,
                             IF Truthy(fn_args.content) THEN "success"
                             ELSE "error", <<>>)]
       IN fn_result' =
              GenerationAttempt(fn_args.artifact, fn_args.attempt,
                                IF fn_args.artifact = "ci"
                                THEN max_ci_attempts ELSE max_cd_attempts,
                                fn_args.content, fn_args.errors, steps,
                                fn_args.oracle, fn_args.validator_result)
    /\ UNCHANGED <<fn_args, avars, pvars, hvars, cvars>>

HandlerStep(mode) ==
    \/ HInvoke(mode) /\ UNCHANGED pvars
    \/ HRepoIngestor(mode) /\ UNCHANGED pvars
    \/ HRepoScanner(mode) /\ UNCHANGED pvars
    \/ HStaticAnalyzer(mode) /\ UNCHANGED pvars
    \/ HPipelineDesigner(mode) /\ UNCHANGED pvars
    \/ HSecurityCompliance(mode) /\ UNCHANGED pvars
    \/ HYamlGenerator(mode) /\ UNCHANGED pvars
    \/ HCiAttempt(mode) /\ UNCHANGED pvars
    \/ HCdAttempt(mode) /\ UNCHANGED pvars
    \/ HPrManager(mode) /\ UNCHANGED pvars
    \/ HPublish(mode)
    \/ HPublishReturn(mode)

Next ==
    \/ HInvoke("run") /\ UNCHANGED <<avars, pvars, cvars, fvars>>
    \/ HRepoIngestor("run") /\ UNCHANGED <<avars, pvars, cvars, fvars>>
    \/ HRepoScanner("run") /\ UNCHANGED <<avars, pvars, cvars, fvars>>
    \/ HStaticAnalyzer("run") /\ UNCHANGED <<avars, pvars, cvars, fvars>>
    \/ HPipelineDesigner("run") /\ UNCHANGED <<avars, pvars, cvars, fvars>>
    \/ HSecurityCompliance("run") /\ UNCHANGED <<avars, pvars, cvars, fvars>>
    \/ HYamlGenerator("run") /\ UNCHANGED <<avars, pvars, cvars, fvars>>
    \/ HCiAttempt("run") /\ UNCHANGED <<avars, pvars, cvars, fvars>>
    \/ HCdAttempt("run") /\ UNCHANGED <<avars, pvars, cvars, fvars>>
    \/ HPrManager("run") /\ UNCHANGED <<avars, pvars, cvars, fvars>>
    \/ HPublish("run") /\ UNCHANGED <<avars, cvars, fvars>>
    \/ PublishCreateBranch /\ UNCHANGED <<avars, hvars, cvars, fvars>>
    \/ PublishCreateFile /\ UNCHANGED <<avars, hvars, cvars, fvars>>
    \/ PublishCreatePr /\ UNCHANGED <<avars, hvars, cvars, fvars>>
    \/ HPublishReturn("run") /\ UNCHANGED <<avars, cvars, fvars>>

Init ==
    AgentInit /\ PublishIdle /\ HandlerInit /\ TasksIdle /\ FnIdle

Spec ==
    Init /\ [][Next]_vars

\* execute_github_workflow on its own, for every repository it may find
InitPublish ==
    AgentInit /\ PublishIdle /\ HandlerIdle /\ TasksIdle /\ FnIdle

\* invoke_agent on its own
InitAgent ==
    AgentInit /\ PublishIdle /\ gh = FreshRepository /\ HandlerIdle
        /\ TasksIdle /\ FnIdle

\* Two tasks for one repository, invoked side by side
InitTasks ==
    AgentInit /\ PublishIdle /\ gh = FreshRepository /\ HandlerIdle
        /\ TasksInvoked /\ FnIdle

SpecTasks ==
    InitTasks /\ [][TasksNext]_vars

\* template_validator.lambda_handler on its own
InitValidator ==
    AgentInit /\ PublishIdle /\ gh = FreshRepository /\ HandlerIdle
        /\ TasksIdle /\ ValidatorInvoked

SpecValidator ==
    InitValidator /\ [][ValidatorNext]_vars

SpecCalls ==
    InitAgent /\ [][CallsNext]_vars

\* extract_yaml_content and is_yaml_complete on their own
InitExtract ==
    AgentInit /\ PublishIdle /\ gh = FreshRepository /\ HandlerIdle
        /\ TasksIdle /\ ExtractInvoked

SpecExtract ==
    InitExtract /\ [][ExtractReturns]_vars

\* One iteration of a generation loop on its own, the validator configured
InitAttempt ==
    AgentInit /\ PublishIdle /\ gh = FreshRepository /\ HandlerIdle
        /\ TasksIdle /\ AttemptInvoked

SpecAttempt ==
    InitAttempt /\ [][AttemptReturns]_vars

\* monitor_progress on its own, while the orchestrator runs the task
InitMonitor ==
    AgentInit /\ PublishIdle /\ gh = FreshRepository /\ HandlerIdle
        /\ TasksIdle /\ MonitorInvoked

SpecMonitor ==
    InitMonitor /\ [][MonitorNext]_vars

\* lambda_handler where a stage it only logs may fail
InitDegraded ==
    AgentInit /\ PublishIdle /\ HandlerDegraded /\ TasksIdle /\ FnIdle

SpecDegraded ==
    InitDegraded /\ [][Next]_vars

\* invoke_agent on its own, reading the event streams
InitStream ==
    AgentInit /\ PublishIdle /\ gh = FreshRepository /\ HandlerIdle
        /\ TasksIdle /\ StreamCallInvoked

SpecStream ==
    InitStream /\ [][StreamCallReturns]_vars

SpecPublish ==
    InitPublish /\ [][PublishNext]_vars

SpecAgent ==
    InitAgent /\ [][AgentNext]_vars

\* ------------------------------------------------------------------------
\* Claims about invoke_agent (SpecAgent)
\* ------------------------------------------------------------------------

\* The retryable classes as the specification names them: throttling,
\* service / internal-server error, dependency failed
RetryableClass(e) ==
    \/ e.error_type \in {"ThrottlingException", "ServiceException",
                         "InternalServerException"}
    \/ e.message = "An error occurred (dependencyFailedException) when calling InvokeAgent"

EveryInvocationFailedRetryably ==
    /\ Len(ag_errors) = Len(ag_sessions)
    /\ \A i \in 1..Len(ag_errors) : RetryableClass(ag_errors[i])

\* C4: when every invocation of the agent fails with a retryable error,
\* invoke_agent invokes the agent at most max_retries + 1 times (3 with the
\* default max_retries = 2); there is no wait before the first invocation and
\* the wait before the invocation of attempt k is 2^k (2, then 4), so the
\* waits never decrease.
C4_RetryBoundAndBackoff ==
    EveryInvocationFailedRetryably =>
        /\ Len(ag_sessions) <= ag_max_retries + 1
        /\ (ag_max_retries = DefaultMaxRetries => Len(ag_sessions) <= 3)
        /\ Len(ag_waits) = (IF Len(ag_sessions) = 0 THEN 0
                            ELSE Len(ag_sessions) - 1)
        /\ \A k \in 1..Len(ag_waits) : ag_waits[k] = 2 ^ k
        /\ \A k \in 1..(Len(ag_waits) - 1) : ag_waits[k] <= ag_waits[k + 1]

C4_Witness ==
    /\ ag_pc = "returned"
    /\ ag_max_retries = DefaultMaxRetries
    /\ EveryInvocationFailedRetryably
    /\ Len(ag_sessions) = 3
    /\ ag_waits = <<2, 4>>
    /\ ag_result.status = "error"

\* C5: an invocation that fails with a non-retryable error is the last one:
\* invoke_agent has returned, the result is status error with the message
\* and the type of that error, and when it is the first invocation exactly
\* one invocation was made, whatever max_retries is.
C5_NonRetryableReturnsAtOnce ==
    \A i \in 1..Len(ag_errors) :
        ~RetryableClass(ag_errors[i]) =>
            /\ i = Len(ag_errors)
            /\ ag_pc = "returned"
            /\ Len(ag_sessions) = ag_attempt + 1
            /\ (i = 1 => Len(ag_sessions) = 1)
            /\ ag_result.status = "error"
            /\ ag_result.message = ag_errors[i].message
            /\ ag_result.error_type = ag_errors[i].error_type

C5_Witness ==
    /\ ag_pc = "returned"
    /\ ag_max_retries = MaxRetriesBound
    /\ Len(ag_errors) = 1
    /\ ~RetryableClass(ag_errors[1])
    /\ Len(ag_sessions) = 1
    /\ ag_result.status = "error"
    /\ ag_result.error_type = "ValidationException"

\* ------------------------------------------------------------------------
\* Claims about execute_github_workflow (SpecPublish)
\* ------------------------------------------------------------------------

FullPublishSequence ==
    <<"create_branch", "create_file", "create_pr">>

IsPrefix(s, t) ==
    /\ Len(s) <= Len(t)
    /\ \A i \in 1..Len(s) : s[i] = t[i]

Issued(operation) ==
    \E i \in 1..Len(github_result.issued) : github_result.issued[i] = operation

\* No operation that was issued came back with a status other than success
NoSubOperationFailed ==
    \A operation \in {"create_branch", "create_file", "create_pr"} :
        Issued(operation) =>
            github_result.operations[operation].status = "success"

\* The operations are issued in the order branch, file, pull request, each
\* only after the previous one returned status success
PublishOrderAndGates ==
    /\ IsPrefix(github_result.issued, FullPublishSequence)
    /\ Issued("create_file") =>
          github_result.operations["create_branch"].status = "success"
    /\ Issued("create_pr") =>
          github_result.operations["create_file"].status = "success"

\* C6 as stated: order and gating as above, and whenever the call has
\* returned without any sub-operation failing, branch, file and pull request
\* were issued exactly once each.
C6_Original ==
    /\ PublishOrderAndGates
    /\ (pub_pc = "returned" /\ NoSubOperationFailed) =>
          github_result.issued = FullPublishSequence

\* C6 (amended): order and gating as above; when GITHUB_API_FUNCTION_NAME is
\* set, at least one of the two workflow contents is non-empty and no
\* sub-operation fails, branch, file and pull request are issued exactly
\* once each.
C6_OrderGatesAndFullSequence ==
    /\ PublishOrderAndGates
    /\ (/\ pub_pc = "returned"
        /\ pub_call.configured
        /\ Truthy(pub_call.yaml_content_ci) \/ Truthy(pub_call.yaml_content_cd)
        /\ NoSubOperationFailed) =>
          github_result.issued = FullPublishSequence

C6_Witness ==
    /\ pub_pc = "returned"
    /\ pub_call.configured
    /\ NoSubOperationFailed
    /\ github_result.issued = FullPublishSequence
    /\ github_result.success

\* The messages of the model that contain the phrase "already exists" in
\* some capitalisation
MentionsAlreadyExists(message) ==
    message \in {"A pull request already exists for owner:gen-ai/cicd-generation",
                 "Pull Request ALREADY EXISTS"}

PrFailed ==
    /\ github_result.issued = FullPublishSequence
    /\ github_result.operations["create_pr"].status # "success"

\* C7: after create_branch and create_file succeeded, a non-success create_pr
\* result whose message contains "already exists" in any capitalisation
\* gives success = true with exactly one warning; a non-success create_pr
\* result without the phrase, and any non-success result of create_branch or
\* create_file whatever its message, give success = false.
C7_AlreadyExistsIsSuccessWithWarning ==
    pub_pc = "returned" =>
        /\ (PrFailed /\ MentionsAlreadyExists(
                            github_result.operations["create_pr"].message)) =>
              (github_result.success /\ Len(github_result.warnings) = 1)
        /\ (PrFailed /\ ~MentionsAlreadyExists(
                            github_result.operations["create_pr"].message)) =>
              ~github_result.success
        /\ \A operation \in {"create_branch", "create_file"} :
              (Issued(operation) /\
               github_result.operations[operation].status # "success") =>
                  ~github_result.success

C7_Witness ==
    /\ pub_pc = "returned"
    /\ PrFailed
    /\ github_result.operations["create_pr"].message = "Pull Request ALREADY EXISTS"
    /\ github_result.success
    /\ Len(github_result.warnings) = 1

\* C8: a publish outcome with success = true means that the branch exists,
\* every workflow file handed to create_file is on the branch with the
\* content handed over, and the pull request exists; with the github_api
\* Lambda as publishing API, create_pr is not issued and success is not
\* reported when the write of one of the files failed.
C8_SuccessMeansPublished ==
    (pub_pc = "returned" /\ pub_call.backend = "github_api") =>
        /\ github_result.success =>
              /\ gh.branch
              /\ gh.pr
              /\ \A p \in WorkflowPaths :
                    Truthy(CallFiles[p]) => gh.files[p] = CallFiles[p]
        /\ (\E p \in WorkflowPaths :
               github_result.operations["create_file"].files[p] = "error") =>
              (~Issued("create_pr") /\ ~github_result.success)

\* ------------------------------------------------------------------------
\* Claims about lambda_handler of the orchestrator (Spec)
\* ------------------------------------------------------------------------

Returned ==
    h_pc = "returned"

\* The calls of create_task_record and update_task_status so far, in order
StatusWrites ==
    StoreEvents(trace)

TerminalStatuses ==
    {"completed", "failed"}

\* C1: an execution that passes input validation performs exactly one
\* terminal status write (completed or failed), which is its last status
\* write; every earlier status write is in_progress.  On every exit path.
C1_OneTerminalWriteAtTheEnd ==
    LET w == StatusWrites IN
    /\ \A i \in 1..(Len(w) - 1) : w[i].status = "in_progress"
    /\ IF Returned /\ event.has_repo_url
       THEN Len(w) > 0 /\ w[Len(w)].status \in TerminalStatuses
       ELSE \A i \in 1..Len(w) : w[i].status = "in_progress"

\* The controller gave up because of a step's irrecoverable failure
GaveUp ==
    /\ Returned
    /\ event.has_repo_url
    /\ h_result.status = "error"
    /\ h_result.message # "UnboundLocalError"

\* C2: when the controller gives up (repo_scanner error, CI or CD attempts
\* exhausted for any reason, github_operations failure) it has written
\* status failed with the name of the offending step, and nothing but the
\* return follows that write: no agent call, no function call, no publish
\* operation, no appended step.
C2_GivingUpWritesFailedWithStep ==
    GaveUp =>
        \E i \in 1..Len(trace) :
            /\ trace[i].kind = "store"
            /\ trace[i].status = "failed"
            /\ trace[i].step # ""
            /\ \A j \in (i + 1)..Len(trace) : trace[j].kind = "return"

IsGeneratorCall(e, step) ==
    e.kind = "agent" /\ e.name = "yaml_generator" /\ e.step = step

IsValidatorCall(e, step) ==
    e.kind = "lambda" /\ e.name = "template_validator" /\ e.step = step

\* The number of events among the first n of the run that satisfy Is(_, step)
CallsUpTo(Is(_, _), step, n) ==
    Cardinality({i \in 1..n : Is(trace[i], step)})

\* C3: for the CI and for the CD artifact, at every moment of every
\* execution the validator has been invoked at most as often as the
\* generator, and the generator at most 3 times.
C3_ValidatorAtMostGeneratorAtMostThree ==
    \A step \in {"yaml_generator_ci", "yaml_generator_cd"} :
        /\ CallsUpTo(IsGeneratorCall, step, Len(trace)) <= 3
        /\ \A n \in 1..Len(trace) :
              IsValidatorCall(trace[n], step) =>
                  CallsUpTo(IsValidatorCall, step, n)
                      <= CallsUpTo(IsGeneratorCall, step, n)

C3_Witness ==
    /\ Returned
    /\ CallsUpTo(IsGeneratorCall, "yaml_generator_ci", Len(trace)) = 3
    /\ CallsUpTo(IsValidatorCall, "yaml_generator_ci", Len(trace)) = 3
    /\ h_result.message = "CI workflow validation failed"

\* pr_manager was observed to invoke every required operation itself
ObservedAllRequired ==
    RequiredOperations \subseteq ObservedInvocations(workflow_steps)

C10_StoreFailuresDoNotChangeTheRun ==
    /\ [][HandlerStep("reliable")]_hctl
    /\ [](h_result.message # "store write raised")

C10_Witness ==
    /\ Returned
    /\ store_failures > 0
    /\ h_result.status = "success"
    /\ task_record.status = "in_progress"

\* The number of steps appended by the first n events of the run
AppendsUpTo(n) ==
    Cardinality({i \in 1..n : trace[i].kind = "append"})

IsRemoteCall(e) ==
    e.kind \in {"agent", "lambda"}

\* C11: every step appended to workflow_steps is at once handed to the
\* state store, in a write with status in_progress whose steps are the whole
\* list as it is then, before any remote call is issued, before any other
\* status is written and before the handler returns.
C11_AppendedStepIsWrittenBeforeAdvancing ==
    \A i \in 1..Len(trace) :
        trace[i].kind = "append" =>
            /\ i < Len(trace)
            /\ trace[i + 1].kind = "store"
            /\ trace[i + 1].name = "update_task_status"
            /\ trace[i + 1].status = "in_progress"
            /\ trace[i + 1].steps = AppendsUpTo(i)

C11_Witness ==
    /\ Returned
    /\ h_result.status = "success"
    /\ Len(workflow_steps) = 9
    /\ AppendsUpTo(Len(trace)) = 9
    /\ \E i \in 1..Len(trace) :
          /\ trace[i].kind = "append"
          /\ \E j \in (i + 1)..Len(trace) : IsRemoteCall(trace[j])

\* The task ended in failure: lambda_handler returned an error after the
\* task record was created
EndedInFailure ==
    /\ Returned
    /\ event.has_repo_url
    /\ h_result.status = "error"

\* C12: when a task ends in failure, the task record as the last store write
\* left it has status failed, a failure reason, the name of the offending
\* step and the full list of the workflow steps executed so far.  (Stated
\* for the runs whose last write reached the record.)
C12_FailedRecordCarriesReasonStepAndSteps ==
    (EndedInFailure /\ store_failures = 0) =>
        /\ task_record.status = "failed"
        /\ task_record.error # ""
        /\ task_record.step # ""
        /\ task_record.steps = Len(workflow_steps)

GenerationSteps ==
    {"yaml_generator_ci", "yaml_generator_cd"}

\* The generator call, and the validator call if any, of attempt j of a loop
GeneratorCallOf(step, j) ==
    {i \in 1..Len(trace) : IsGeneratorCall(trace[i], step)
                           /\ trace[i].attempt = j}

ValidatorCallOf(step, j) ==
    {i \in 1..Len(trace) : IsValidatorCall(trace[i], step)
                           /\ trace[i].attempt = j}

\* Attempt j ended with a diagnostic: the generator answered, and its answer
\* was too short, incomplete or not accepted by the validator
RecordedDiagnostic(step, j) ==
    \E i \in GeneratorCallOf(step, j) :
        /\ trace[i].status = "success"
        /\ \/ trace[i].info # "complete yaml"
           \/ \E v \in ValidatorCallOf(step, j) : trace[v].info # "valid"

\* The kind of that diagnostic
DiagnosticKind(step, j) ==
    LET text == LoopText(IF step = "yaml_generator_ci" THEN "ci" ELSE "cd")
        g == trace[CHOOSE i \in GeneratorCallOf(step, j) : TRUE]
    IN IF g.info \in {"short yaml", "short truncated yaml"}
       THEN text.too_short_feedback
       ELSE IF g.info = "truncated yaml" THEN text.incomplete_feedback
       ELSE IF \E v \in ValidatorCallOf(step, j) :
                  trace[v].status = "invoke_error"
       THEN "workflow validation failed"
       ELSE "validator errors"

\* C13 as stated: attempt 1 sends the base prompt; every attempt i > 1
\* sends the failure reason of attempt i - 1, never an older one and never
\* none.
C13_Original ==
    \A step \in GenerationSteps, i \in 1..Len(trace) :
        IsGeneratorCall(trace[i], step) =>
            IF trace[i].attempt = 1
            THEN trace[i].out = NoFeedback
            ELSE /\ RecordedDiagnostic(step, trace[i].attempt - 1)
                 /\ trace[i].out.kind
                       = DiagnosticKind(step, trace[i].attempt - 1)

\* The latest attempt before attempt n that ended with a diagnostic; 0 if
\* there is none
LatestDiagnosed(step, n) ==
    LET S == {j \in 1..(n - 1) : RecordedDiagnostic(step, j)}
    IN IF S = {} THEN 0 ELSE CHOOSE j \in S : \A k \in S : k <= j

\* C13 amended: attempt 1 sends the base prompt; every attempt i > 1 sends
\* the diagnostic of the latest earlier attempt that ended with one, which
\* is attempt i - 1 unless the agent call of attempt i - 1 itself failed;
\* when no earlier attempt ended with a diagnostic, it sends the base prompt.
C13_FeedbackIsLatestDiagnostic ==
    \A step \in GenerationSteps, i \in 1..Len(trace) :
        IsGeneratorCall(trace[i], step) =>
            LET j == LatestDiagnosed(step, trace[i].attempt)
            IN IF j = 0
               THEN trace[i].out = NoFeedback
               ELSE /\ trace[i].out.kind = DiagnosticKind(step, j)
                    /\ (RecordedDiagnostic(step, trace[i].attempt - 1)
                           => j = trace[i].attempt - 1)

C13_Witness ==
    \E i \in 1..Len(trace) :
        /\ IsGeneratorCall(trace[i], "yaml_generator_ci")
        /\ trace[i].attempt = 3
        /\ ~RecordedDiagnostic("yaml_generator_ci", 2)
        /\ trace[i].out.kind = DiagnosticKind("yaml_generator_ci", 1)
        /\ trace[i].out # NoFeedback

\* Attempt j of a loop produced an artifact that passed the length and
\* completeness checks and that the validator accepted
Accepted(step, j) ==
    /\ \E i \in GeneratorCallOf(step, j) :
           trace[i].status = "success" /\ trace[i].info = "complete yaml"
    /\ \E v \in ValidatorCallOf(step, j) : trace[v].info = "valid"

\* C14: once an attempt of a loop is accepted, no generator call of that loop
\* follows: every generator call of the loop precedes the accepting
\* validator call and has an attempt number no greater; an acceptance on
\* attempt 1 leaves exactly one generator call for the artifact.
C14_AcceptedAttemptEndsTheLoop ==
    \A step \in GenerationSteps, j \in 1..max_ci_attempts :
        Accepted(step, j) =>
            /\ \A v \in ValidatorCallOf(step, j), i \in 1..Len(trace) :
                   IsGeneratorCall(trace[i], step) =>
                       i < v /\ trace[i].attempt <= j
            /\ (j = 1 =>
                   CallsUpTo(IsGeneratorCall, step, Len(trace)) = 1)

C14_Witness ==
    /\ Returned
    /\ h_result.status = "success"
    /\ Accepted("yaml_generator_ci", 2)
    /\ CallsUpTo(IsGeneratorCall, "yaml_generator_ci", Len(trace)) = 2
    /\ Accepted("yaml_generator_cd", 1)
    /\ CallsUpTo(IsGeneratorCall, "yaml_generator_cd", Len(trace)) = 1

SyntheticFeedback ==
    Feedback("workflow validation failed", <<>>)

\* The loop of `step` stands before attempt n with the feedback f
LoopStandsAt(step, n, f) ==
    IF step = "yaml_generator_ci"
    THEN h_pc = "ci_loop" /\ ci_attempt = n /\ ci_validation_errors = f
    ELSE h_pc = "cd_loop" /\ cd_attempt = n /\ cd_validation_errors = f

FailedValidatorCalls ==
    {v \in 1..Len(trace) :
        /\ trace[v].kind = "lambda"
        /\ trace[v].name = "template_validator"
        /\ trace[v].status = "invoke_error"}

\* C15: a validator call that itself fails counts as an invalid verdict: the
\* attempt is not accepted; before the last attempt the loop goes on to the
\* next attempt, whose prompt carries the one synthetic message; on the last
\* attempt the handler returns the validation failure; no exception exit.
C15_ValidatorFailureIsAnInvalidVerdict ==
    \A v \in FailedValidatorCalls :
        LET step == trace[v].step
            j == trace[v].attempt
            text == LoopText(IF step = "yaml_generator_ci" THEN "ci"
                             ELSE "cd")
        IN /\ trace[v].info = "invalid"
           /\ ~Accepted(step, j)
           /\ IF j < max_ci_attempts
              THEN IF v = Len(trace)
                   THEN LoopStandsAt(step, j + 1, SyntheticFeedback)
                   ELSE /\ IsGeneratorCall(trace[v + 1], step)
                        /\ trace[v + 1].attempt = j + 1
                        /\ trace[v + 1].out = SyntheticFeedback
              ELSE /\ v < Len(trace)
                   /\ trace[v + 1] = ReturnEvent("error", text.invalid)

C15_Witness ==
    /\ Returned
    /\ h_result = Return("error", "CI workflow validation failed")
    /\ \E v, w \in FailedValidatorCalls :
           /\ trace[v].attempt = 1
           /\ trace[v + 1].out = SyntheticFeedback
           /\ trace[w].attempt = max_ci_attempts

\* The last workflow step is the publish step, and it succeeded
PublishStepSucceeded ==
    /\ workflow_steps # <<>>
    /\ workflow_steps[Len(workflow_steps)].step = "github_operations"
    /\ workflow_steps[Len(workflow_steps)].status = "success"

CompletedWrites ==
    {i \in 1..Len(trace) : trace[i].kind = "store"
                           /\ trace[i].status = "completed"}

\* C16: status completed is written exactly when the publish step returned
\* success: a completed record or a completed write implies that the last
\* workflow step is github_operations with a success result, and an
\* execution whose publish step succeeded ends with the completed write,
\* followed only by the success return; the record is completed when the
\* store took that write.
C16_CompletedIffPublishSucceeded ==
    /\ (task_record.status = "completed" \/ CompletedWrites # {})
           => PublishStepSucceeded
    /\ (Returned /\ PublishStepSucceeded) =>
           /\ CompletedWrites = {Len(trace) - 1}
           /\ trace[Len(trace)] = ReturnEvent("success", "")
           /\ trace[Len(trace) - 1].steps = Len(workflow_steps)
           /\ (store_failures = 0 => task_record.status = "completed")

C16_Witness ==
    /\ Returned
    /\ PublishStepSucceeded
    /\ task_record.status = "completed"
    /\ CompletedWrites # {}

\* Every stage configured and every remote call answering well at once
NominalRun ==
    /\ event.has_repo_url
    /\ event.agent_ids = AgentNames
    /\ env.functions = FunctionNames
    /\ env.unreliable = {}

\* Step names built as f"yaml_generator_ci_attempt_{ci_attempt}"
AttemptNamed ==
    {"yaml_generator_ci_attempt", "yaml_generator_cd_attempt"}

StageOf(s) ==
    CASE s.step = "yaml_generator_ci_attempt" -> "yaml_generator_ci"
      [] s.step = "yaml_generator_cd_attempt" -> "yaml_generator_cd"
      [] OTHER -> s.step

Topology ==
    <<"repo_ingestor", "repo_scanner", "static_analyzer", "pipeline_designer",
      "security_compliance", "yaml_generator_ci", "yaml_generator_cd",
      "pr_manager", "github_operations">>

OneStepPerStage ==
    /\ Len(workflow_steps) = Len(Topology)
    /\ \A k \in 1..Len(Topology) : StageOf(workflow_steps[k]) = Topology[k]

\* C17 as stated: the nominal run completes with one step per stage, and no
\* step name carries an attempt suffix.
C17_Original ==
    (NominalRun /\ Returned) =>
        /\ h_result.status = "success"
        /\ OneStepPerStage
        /\ \A k \in 1..Len(workflow_steps) :
               workflow_steps[k].step \notin AttemptNamed

\* C17 amended: the nominal run completes with one step per stage; the two
\* generation steps are named with attempt number 1, the other steps carry
\* no attempt number.
C17_NominalRunOneStepPerStage ==
    (NominalRun /\ Returned) =>
        /\ h_result.status = "success"
        /\ (store_failures = 0 => task_record.status = "completed")
        /\ OneStepPerStage
        /\ \A k \in 1..Len(workflow_steps) :
               IF workflow_steps[k].step \in AttemptNamed
               THEN workflow_steps[k].attempt = 1
               ELSE workflow_steps[k].attempt = 0

C17_Witness ==
    /\ NominalRun
    /\ Returned
    /\ task_record.status = "completed"
    /\ OneStepPerStage
    /\ workflow_steps[6].step = "yaml_generator_ci_attempt"
    /\ workflow_steps[6].attempt = 1

LastStatusWrite ==
    StatusWrites[Len(StatusWrites)]

FailedAt(k, name) ==
    /\ workflow_steps[k].step = name
    /\ workflow_steps[k].status # "success"

\* C18 as stated: when the first stage that ran failed, the task ends with
\* status failed, that stage's name as the recorded step, and no step of a
\* later stage.
C18_Original ==
    (Returned /\ workflow_steps # <<>>
        /\ workflow_steps[1].status # "success") =>
        /\ Len(workflow_steps) = 1
        /\ LastStatusWrite.status = "failed"
        /\ LastStatusWrite.step = workflow_steps[1].step

\* C18 amended: a failed repo_scanner step is the last step of the trail,
\* preceded by nothing but the repo_ingestor step; the handler returns the
\* scanning failure and its last status write is failed with step
\* repo_scanner. A failed repo_ingestor step ends nothing: no status write
\* names repo_ingestor, and the repo_scanner stage runs after it.
C18_ScannerFailureEndsTheTask ==
    /\ \A k \in 1..Len(workflow_steps) :
           FailedAt(k, "repo_scanner") =>
               /\ k = Len(workflow_steps)
               /\ \A j \in 1..(k - 1) :
                      workflow_steps[j].step = "repo_ingestor"
               /\ Returned
               /\ h_result = Return("error", "Repository scanning failed")
               /\ LastStatusWrite.status = "failed"
               /\ LastStatusWrite.step = "repo_scanner"
               /\ (store_failures = 0 =>
                      /\ task_record.status = "failed"
                      /\ task_record.step = "repo_scanner")
    /\ \A i \in 1..Len(StatusWrites) :
           StatusWrites[i].step # "repo_ingestor"
    /\ (Returned /\ workflow_steps # <<>> /\ FailedAt(1, "repo_ingestor")
           /\ "repo_scanner" \in event.agent_ids) =>
           /\ Len(workflow_steps) >= 2
           /\ workflow_steps[2].step = "repo_scanner"

C18_Witness ==
    /\ Returned
    /\ Len(workflow_steps) = 2
    /\ workflow_steps[1].step = "repo_ingestor"
    /\ FailedAt(2, "repo_scanner")
    /\ task_record.status = "failed"
    /\ task_record.step = "repo_scanner"

StageRank(stage) ==
    CHOOSE k \in 1..Len(Topology) : Topology[k] = stage

StepsOfStageUpTo(stage, n) ==
    {k \in 1..n : StageOf(workflow_steps[k]) = stage}

AppendEvents ==
    SelectSeq(trace, LAMBDA e : e.kind = "append")

\* The list is the record of the appends made, in the order they were made;
\* stages follow the topology; the attempts of an artifact are numbered
\* 1, 2, ... in order, one step for every generator call; names are unique
StepsAreTheExecutionRecord ==
    /\ Len(AppendEvents) = Len(workflow_steps)
    /\ \A k \in 1..Len(workflow_steps) :
           /\ AppendEvents[k].name = workflow_steps[k].step
           /\ AppendEvents[k].attempt = workflow_steps[k].attempt
           /\ StageOf(workflow_steps[k]) \in StageNames
    /\ \A k, l \in 1..Len(workflow_steps) :
           k < l =>
               /\ StageRank(StageOf(workflow_steps[k]))
                     <= StageRank(StageOf(workflow_steps[l]))
               /\ <<workflow_steps[k].step, workflow_steps[k].attempt>>
                     # <<workflow_steps[l].step, workflow_steps[l].attempt>>
    /\ \A k \in 1..Len(workflow_steps) :
           IF StageOf(workflow_steps[k]) \in GenerationSteps
           THEN workflow_steps[k].attempt
                   = Cardinality(StepsOfStageUpTo(
                                     StageOf(workflow_steps[k]), k))
           ELSE workflow_steps[k].attempt = 0
    /\ \A step \in GenerationSteps :
           CallsUpTo(IsGeneratorCall, step, Len(trace))
               = Cardinality(StepsOfStageUpTo(step, Len(workflow_steps)))

\* C19: workflow_steps only grows at its end, and in every state it is the
\* record of the appends in execution order: stage names in topology order,
\* every generation attempt present with attempt numbers 1, 2, ... per
\* artifact, and no step name twice.
C19_StepsAppendOnlyInExecutionOrder ==
    /\ [][IsPrefix(workflow_steps, workflow_steps')]_vars
    /\ []StepsAreTheExecutionRecord

C19_Witness ==
    /\ Returned
    /\ Len(workflow_steps) = 8
    /\ Cardinality(StepsOfStageUpTo("yaml_generator_ci", 8)) = 3
    /\ workflow_steps[8].step = "yaml_generator_ci_attempt"
    /\ workflow_steps[8].attempt = 3
    /\ workflow_steps[7].status # workflow_steps[8].status

AgentCalls ==
    {i \in 1..Len(trace) : trace[i].kind = "agent"}

\* The ways an agent may answer the calls of one invoke_agent, up to the
\* text of a successful answer, which no session id depends on
RetryOracles ==
    StageOracles("repo_scanner")

\* The session ids lambda_handler starts its agent calls with
InitialSessionIds ==
    {StageSessionId(session) :
        session \in {"repo-scanner", "pipeline-designer",
                     "security-compliance", "pr-manager"}}
    \cup {LoopSessionId(LoopText(artifact).session, attempt) :
             artifact \in {"ci", "cd"}, attempt \in 1..max_ci_attempts}

\* The session ids, as texts, that invoke_agent passes to the agent when it
\* is called with session_id and the agent answers as `oracle` says
SessionsOfCall(session_id, oracle) ==
    LET used == invoke_agent(session_id, oracle).sessions
    IN [k \in 1..Len(used) |-> SessionText(used[k])]

\* The chains of session ids a call starting with session_id may use
SessionChains ==
    [session_id \in InitialSessionIds |->
        {SessionsOfCall(session_id, oracle) : oracle \in RetryOracles}]

\* All session ids a call starting with session_id may use
SessionsOf ==
    [session_id \in InitialSessionIds |->
        UNION {{chain[k] : k \in 1..Len(chain)} :
                  chain \in SessionChains[session_id]}]

\* All session ids the agent calls of the run may have used
SessionsOfRun ==
    UNION {SessionsOf[trace[i].session] : i \in AgentCalls}

\* C20: within one execution no session id is used twice: the calls of
\* different stages and different generation attempts use disjoint session
\* ids, whatever retries invoke_agent makes, and within one call every
\* retry uses a session id the call has not used before.
C20_SessionIdsAreNeverReused ==
    /\ \A i, j \in AgentCalls :
           i < j => SessionsOf[trace[i].session]
                       \cap SessionsOf[trace[j].session] = {}
    /\ \A i \in AgentCalls : \A chain \in SessionChains[trace[i].session] :
           /\ chain[1] = SessionText(trace[i].session)
           /\ \A k, l \in 1..Len(chain) : k < l => chain[k] # chain[l]

C20_Witness ==
    /\ Returned
    /\ "yaml_generator_ci" \in env.unreliable
    /\ CallsUpTo(IsGeneratorCall, "yaml_generator_ci", Len(trace)) = 3
    /\ Cardinality(AgentCalls) = 8
    /\ Cardinality(SessionsOfRun) = 8 * (DefaultMaxRetries + 1)
    /\ "task-yaml-generator-ci-attempt-2-retry-1-retry-2" \in SessionsOfRun

GeneratorCallsOf(step) ==
    CallsUpTo(IsGeneratorCall, step, Len(trace))

CdExhaustionMessages ==
    {LoopText("cd").generation_failed, LoopText("cd").too_short,
     LoopText("cd").incomplete, LoopText("cd").invalid}

\* C21: the CD loop has a budget of its own: whatever the CI loop consumed,
\* the CD attempts are numbered from 1, the first CD prompt carries no
\* feedback, a later one carries feedback only when an earlier CD attempt
\* ended with a diagnostic, every CD call starts from the CD session id of
\* its attempt, and the CD loop gives up only after its own third attempt.
C21_CdLoopStartsFresh ==
    /\ \A i \in 1..Len(trace) :
           IsGeneratorCall(trace[i], "yaml_generator_cd") =>
               /\ trace[i].attempt
                     = CallsUpTo(IsGeneratorCall, "yaml_generator_cd", i)
               /\ trace[i].attempt <= max_cd_attempts
               /\ trace[i].session
                     = LoopSessionId(LoopText("cd").session, trace[i].attempt)
               /\ trace[i].session
                     # LoopSessionId(LoopText("ci").session, trace[i].attempt)
               /\ (trace[i].attempt = 1 => trace[i].out = NoFeedback)
               /\ (trace[i].out # NoFeedback =>
                      LatestDiagnosed("yaml_generator_cd",
                                      trace[i].attempt) > 0)
    /\ (Returned /\ h_result.message \in CdExhaustionMessages) =>
           GeneratorCallsOf("yaml_generator_cd") = max_cd_attempts

C21_Witness ==
    /\ Returned
    /\ GeneratorCallsOf("yaml_generator_ci") = 3
    /\ ci_validation_errors # NoFeedback
    /\ GeneratorCallsOf("yaml_generator_cd") = 3
    /\ \E i \in 1..Len(trace) :
           /\ IsGeneratorCall(trace[i], "yaml_generator_cd")
           /\ trace[i].attempt = 1
           /\ trace[i].out = NoFeedback

\* ------------------------------------------------------------------------
\* Claims about tasks running side by side
\* ------------------------------------------------------------------------

\* The task whose artifact a file of the branch holds
Owner(content) ==
    IF content.len = 0 THEN "none" ELSE content.task

\* Task t returned success and its create_file operation reported path p
\* as written
Published(t, p) ==
    /\ tasks[t].returned = "success"
    /\ tasks[t].result.operations["create_file"].files[p] = "success"

\* C22: under every interleaving of two tasks for the same repository, a
\* workflow file a task has published, and with it the pull request of the
\* branch, holds that task's own artifact: the other task's publish
\* operations do not overwrite it.
C22_TasksPublishInIsolation ==
    \A t \in TaskIds, p \in WorkflowPaths :
        Published(t, p) => Owner(gh.files[p]) = t

\* C23: under every interleaving of two tasks, a store write of a task
\* changes no item but the one keyed by its own id, and the item of every
\* task is at any time what that task's own writes have left.
C23_EachTaskOwnsItsRecord ==
    /\ [](\A t \in TaskIds : table[t] = tasks[t].written)
    /\ [][\A t \in TaskIds : table'[t] # table[t] => tasks'[t] # tasks[t]]_vars

C23_Witness ==
    /\ \A t \in TaskIds : tasks[t].pc = "returned" /\ tasks[t].failures = 0
    /\ table["task-1"].status = "completed"
    /\ table["task-1"] = tasks["task-1"].written
    /\ table["task-2"].status = "failed"
    /\ table["task-2"].step = "github_operations"
    /\ table["task-2"] = tasks["task-2"].written

\* ------------------------------------------------------------------------
\* C24  the validator's verdict and its error list
\* ------------------------------------------------------------------------

ValidatorVerdict ==
    fn_pc = "returned" /\ fn_result.kind = "verdict"

\* C24 as stated: at every validation_level, a returned verdict is valid
\* exactly when its error list is empty, whatever the warnings.
C24_Original ==
    ValidatorVerdict => (fn_result.valid <=> fn_result.errors = <<>>)

\* C24: a verdict returned at validation_level normal is valid exactly
\* when its error list is empty, whatever the warnings; at level strict it
\* is valid exactly when both the error list and the warning list are
\* empty; at level lenient, and at any other level, it is always valid.
C24_VerdictFollowsTheValidationLevel ==
    ValidatorVerdict =>
        CASE fn_args.validation_level = "normal" ->
                fn_result.valid <=> fn_result.errors = <<>>
          [] fn_args.validation_level = "strict" ->
                fn_result.valid <=>
                    (fn_result.errors = <<>> /\ fn_result.warnings = <<>>)
          [] OTHER -> fn_result.valid

\* a normal-level verdict with warnings and no error, which is valid
C24_Witness ==
    /\ ValidatorVerdict
    /\ fn_args.validation_level = "normal"
    /\ fn_result.errors = <<>>
    /\ fn_result.warnings # <<>>
    /\ fn_result.valid

\* ------------------------------------------------------------------------
\* C25  stages whose remote identifier is not configured
\* ------------------------------------------------------------------------

\* The agents and functions this run has no identifier for
Unconfigured ==
    (AgentNames \ event.agent_ids) \cup (FunctionNames \ env.functions)

\* The stages a service is called in, by their step names (the validator is
\* called inside the two generation stages and has no step of its own)
StagesCalling(service) ==
    CASE service = "yaml_generator" ->
            {"yaml_generator_ci", "yaml_generator_cd"}
      [] service = "github_api" -> {"github_operations"}
      [] service = "template_validator" -> {}
      [] OTHER -> {service}

UnconfiguredStages ==
    UNION {StagesCalling(service) : service \in Unconfigured}

RemoteCallsOf(service) ==
    {i \in 1..Len(trace) :
        trace[i].kind \in {"agent", "lambda"} /\ trace[i].name = service}

\* C25: a stage whose agent id or function name is not configured makes no
\* remote call and appends no step, the stages that are configured still
\* run, and with every remote call answering well the task does not fail.
C25_UnconfiguredStagesAreSkipped ==
    /\ \A service \in Unconfigured : RemoteCallsOf(service) = {}
    /\ \A k \in 1..Len(workflow_steps) :
           StageOf(workflow_steps[k]) \notin UnconfiguredStages
    /\ (Returned /\ event.has_repo_url /\ env.unreliable = {}) =>
           /\ h_result.status = "success"
           /\ {StageOf(workflow_steps[k]) : k \in 1..Len(workflow_steps)}
                  = StageNames \ UnconfiguredStages

\* ------------------------------------------------------------------------
\* C26  retry control of the deterministic function calls
\* ------------------------------------------------------------------------

LambdaReturned ==
    fn_pc = "returned" /\ "function_name" \in DOMAIN fn_args

\* The remote invocations invoke_agent's loop makes on the same outcomes
RECURSIVE RetryControlCalls(_, _)
RetryControlCalls(oracle, attempt) ==
    IF oracle[attempt + 1].kind = "raise"
       /\ ShouldRetry(oracle[attempt + 1], attempt, DefaultMaxRetries)
    THEN RetryControlCalls(oracle, attempt + 1)
    ELSE attempt + 1

\* C26: invoke_lambda goes through the retry control of invoke_agent: a call
\* whose remote invocation raises a retryable error is invoked again, as
\* often as invoke_agent would invoke it on the same outcomes.
C26_FunctionCallsAreRetried ==
    LambdaReturned =>
        fn_result.calls = RetryControlCalls(fn_args.oracle, 0)

\* ------------------------------------------------------------------------
\* C27  invoke_agent and invoke_lambda return a result with a status
\* ------------------------------------------------------------------------

AgentReturned ==
    ag_pc = "returned"

\* invoke_agent: the last remote invocation failed iff it was recorded
\* among the raised errors
LastAgentInvocationFailed ==
    Len(ag_errors) = Len(ag_sessions)

LambdaInvocationFailed ==
    fn_args.oracle[1] # FunctionPayload("success")

\* The part of C27 about invoke_agent: it returns success or error, error
\* exactly when the last remote invocation raised, at the call or while the
\* event stream was read.
AgentNeverRaises ==
    AgentReturned =>
        /\ ag_result.status \in {"success", "error"}
        /\ ag_result.status = "error" <=> LastAgentInvocationFailed

\* C27: invoke_agent and invoke_lambda always return a result whose status
\* is success or error, error for every failure of the remote call and
\* success only when the whole response was consumed without error.
C27_CallsReturnAStatus ==
    /\ AgentNeverRaises
    /\ LambdaReturned =>
           /\ fn_result.status \in {"success", "error"}
           /\ fn_result.status = "error" <=> LambdaInvocationFailed

\* ------------------------------------------------------------------------
\* C28  lambda_handler never raises
\* ------------------------------------------------------------------------

\* The exceptions raised inside the main try block of lambda_handler
PipelineExceptions ==
    {"UnboundLocalError"}

\* C28: lambda_handler never raises: whatever fails or is missing, it
\* returns a result with status success or error, and an exception raised
\* inside the pipeline ends in a failed status write carrying the
\* exception's message, followed by an error result with the same message.
C28_HandlerNeverRaises ==
    /\ h_pc # "raised"
    /\ Returned =>
           /\ h_result.status \in {"success", "error"}
           /\ trace[Len(trace)] = ReturnEvent(h_result.status,
                                              h_result.message)
           /\ h_result.message \in PipelineExceptions =>
                  /\ h_result.status = "error"
                  /\ Len(trace) >= 2
                  /\ trace[Len(trace) - 1] =
                         UpdateEvent("failed", h_result.message, "", -1)

\* a run in which the pipeline raised and the handler returned an error
C28_Witness ==
    /\ Returned
    /\ h_result = Return("error", "UnboundLocalError")
    /\ task_record.status = "failed"
    /\ task_record.error = "UnboundLocalError"

\* ------------------------------------------------------------------------
\* C29  termination and the two retry budgets
\* ------------------------------------------------------------------------

\* Per artifact at most 3 generation attempts, and each attempt, like every
\* call of invoke_agent, makes at most 3 invocations of the agent: at most
\* 9 invocations per artifact
RetryBudgets ==
    /\ \A step \in GenerationSteps : GeneratorCallsOf(step) <= 3
    /\ \A i \in AgentCalls : \A chain \in SessionChains[trace[i].session] :
           Len(chain) <= 3
    /\ \A step \in GenerationSteps :
           GeneratorCallsOf(step) * (DefaultMaxRetries + 1) <= 9

\* The positions of lambda_handler and of execute_github_workflow, in the
\* order the control flow passes them
HandlerPositions ==
    <<"invoked", "repo_ingestor", "repo_scanner", "static_analyzer",
      "pipeline_designer", "security_compliance", "yaml_generator",
      "ci_loop", "cd_loop", "pr_manager", "publish", "publishing",
      "returned">>

PublishPositions ==
    <<"idle", "create_branch", "create_file", "create_pr", "returned">>

PositionsAfter(positions, pc) ==
    Len(positions) - (CHOOSE k \in 1..Len(positions) : positions[k] = pc)

\* A bound on the steps lambda_handler still has to take: the positions
\* after the present one, each weighing more than a whole loop or a whole
\* publication, plus the iterations the present loop may still make, plus
\* the operations execute_github_workflow may still make
StepsLeft ==
    8 * PositionsAfter(HandlerPositions, h_pc)
    + (IF h_pc = "ci_loop" THEN max_ci_attempts - ci_attempt ELSE 0)
    + (IF h_pc = "cd_loop" THEN max_cd_attempts - cd_attempt ELSE 0)
    + (IF h_pc = "publishing" THEN PositionsAfter(PublishPositions, pub_pc)
       ELSE 0)

\* C29: as long as every remote call returns, every execution of
\* lambda_handler reaches a return: before the return a step can always be
\* taken, and every step lowers a bound on the steps left, which is zero
\* only at the return.  The budgets of the remote-error retries and of the
\* generation attempts are separate and nested: at most 3 attempts per
\* artifact, at most 3 agent invocations per attempt.
C29_HandlerTerminatesWithinBudgets ==
    /\ [](Returned \/ ENABLED Next)
    /\ [](StepsLeft \in Nat /\ (StepsLeft = 0 <=> Returned))
    /\ [][StepsLeft' < StepsLeft]_vars
    /\ []RetryBudgets

\* a run that used up the three CD attempts and returned
C29_Witness ==
    /\ Returned
    /\ GeneratorCallsOf("yaml_generator_cd") = 3
    /\ \E i \in AgentCalls : \E chain \in SessionChains[trace[i].session] :
           Len(chain) = 3

\* ------------------------------------------------------------------------
\* C30  extraction round trip
\* ------------------------------------------------------------------------

\* The text is opening delimiter + content + closing delimiter
Delimited ==
    /\ fn_pc = "returned"
    /\ "content" \in DOMAIN fn_args
    /\ \E open \in {"fence", "fence_yaml"} :
          fn_args.text = <<open>> \o fn_args.content \o <<"fence">>

\* `len(yaml_content.strip()) < 50` is false for the content
MeetsMinimumLength ==
    LET content == strip(fn_args.content)
    IN content # <<>>
       /\ ChunkSize(content[1]).chars + CharsAfter(content, 1)
              >= MinYamlLength

\* The last deploy section of the content, empty when there is none
DeploySection ==
    LET content == strip(fn_args.content)
        deploys == {k \in 1..Len(content) : content[k] = "deploy"}
    IN IF deploys = {} THEN <<>>
       ELSE SubSeq(content,
                   CHOOSE k \in deploys : \A j \in deploys : j <= k,
                   Len(content))

\* The deploy section names a deployment action, such as update-service
HasTerminalAction ==
    \E k \in 1..Len(DeploySection) : DeploySection[k] \in {"steps", "step"}

\* The content does not end in the middle of a token: its last line has no
\* unterminated ${{ and no unclosed quote, and its last 50 characters have
\* no unclosed brace
EndsOnAToken ==
    LET content == strip(fn_args.content)
    IN /\ content # <<>>
       /\ content[Len(content)] \notin {"interp", "quote"}
       /\ \A k \in 1..Len(content) :
              CharsAfter(content, k) < 50 =>
                  content[k] \notin {"brace", "interp"}

ArtifactDeploySection ==
    LET yaml_content == fn_result.yaml_content
        deploys == {k \in 1..Len(yaml_content) : yaml_content[k] = "deploy"}
    IN IF deploys = {} THEN <<>>
       ELSE SubSeq(yaml_content,
                   CHOOSE k \in deploys : \A j \in deploys : j <= k,
                   Len(yaml_content))

\* The last line of the section that is neither blank nor a comment is
\* `exit 1`
EndsOnAGuardClause ==
    LET section == ArtifactDeploySection
        significant == {k \in 1..Len(section) : section[k] # "blank"}
    IN /\ section # <<>>
       /\ section[CHOOSE k \in significant : \A j \in significant : j <= k]
              \in {"guard", "checks"}

\* No line of the section after its heading `deploy:` holds a keyword of
\* the list of deployment actions
NamesNoDeploymentAction ==
    \A k \in 2..Len(ArtifactDeploySection) :
        DeploymentKeywords(ArtifactDeploySection[k]) = {}

\* C31: is_yaml_complete returns false for every artifact whose deploy
\* section ends on the guard clause `exit 1` and names no deployment action,
\* whatever the length of the artifact and of the section.
C31_GuardEndingIsRejected ==
    (fn_pc = "returned" /\ "yaml_content" \in DOMAIN fn_result
        /\ EndsOnAGuardClause /\ NamesNoDeploymentAction)
        => ~fn_result.complete

\* ------------------------------------------------------------------------
\* C32  only accepted artifacts are published
\* ------------------------------------------------------------------------

\* `content` is what the final attempt of the loop `step` extracted, and that
\* attempt was accepted: the generator answered, the text is at least 50
\* characters long and complete, the validator, when there is one, answered
\* valid, and no later attempt of the loop was made
AcceptedArtifact(step, artifact, content) ==
    /\ Truthy(content)
    /\ content.artifact = artifact
    /\ content.len >= MinYamlLength
    /\ content.complete
    /\ \E i \in GeneratorCallOf(step, content.attempt) :
          /\ trace[i].status = "success"
          /\ content = extract_yaml_content(trace[i].info, artifact,
                                            content.attempt)
    /\ ~RecordedDiagnostic(step, content.attempt)
    /\ "template_validator" \in env.functions =>
          \E v \in ValidatorCallOf(step, content.attempt) :
              trace[v].info = "valid"
    /\ \A i \in 1..Len(trace) :
          IsGeneratorCall(trace[i], step) =>
              trace[i].attempt <= content.attempt

\* execute_github_workflow has been called, or an operation of the
\* publishing API has been issued
PublishStarted ==
    pub_pc # "idle" \/ github_result.issued # <<>>

\* C32: the publish step is entered, and create_branch / create_file /
\* create_pr are issued, only with a CI and a CD artifact that are both
\* non-empty and that are each the content extracted in the final, accepted
\* attempt of its loop; the files sent are these two artifacts.
C32_OnlyAcceptedArtifactsArePublished ==
    PublishStarted =>
        /\ AcceptedArtifact("yaml_generator_ci", "ci",
                            pub_call.yaml_content_ci)
        /\ AcceptedArtifact("yaml_generator_cd", "cd",
                            pub_call.yaml_content_cd)
        /\ CallFiles[".github/workflows/ci.yml"] = pub_call.yaml_content_ci
        /\ CallFiles[".github/workflows/cd.yml"] = pub_call.yaml_content_cd

\* the three operations were issued with the CI artifact of the second
\* attempt, after the validator had rejected the complete artifact of the
\* first
C32_Witness ==
    /\ github_result.issued = <<"create_branch", "create_file", "create_pr">>
    /\ pub_call.yaml_content_ci.attempt = 2
    /\ \E i \in GeneratorCallOf("yaml_generator_ci", 1) :
          trace[i].info = "complete yaml"
    /\ \E v \in ValidatorCallOf("yaml_generator_ci", 1) :
          trace[v].info = "invalid"

\* ------------------------------------------------------------------------
\* C33  the order of the checks of a generation attempt
\* ------------------------------------------------------------------------

\* The body of a generation loop has run
AttemptDone ==
    fn_pc = "returned" /\ "validator_result" \in DOMAIN fn_args

\* What the generator returned in the attempt, and what was extracted
AttemptAnswer ==
    LET generator == fn_result.evs[1]
    IN [status |-> generator.status,
        extracted |-> extract_yaml_content(generator.info, fn_args.artifact,
                                           fn_args.attempt)]

\* The validator was invoked in the attempt
ValidatorReached ==
    \E i \in 1..Len(fn_result.evs) :
        /\ fn_result.evs[i].kind = "lambda"
        /\ fn_result.evs[i].name = "template_validator"

\* The attempt goes to the next attempt, or, on the last attempt, the
\* handler returns the error `message`
NextAttemptOrFail(message) ==
    IF fn_args.attempt < (IF fn_args.artifact = "ci" THEN max_ci_attempts
                          ELSE max_cd_attempts)
    THEN fn_result.exit = "continue"
    ELSE /\ fn_result.exit = "return"
         /\ fn_result.message = message
         /\ fn_result.evs[Len(fn_result.evs)] = ReturnEvent("error", message)

\* C33: within a generation attempt the validator is invoked only after the
\* generator call succeeded and the extracted artifact passed the emptiness
\* and minimum-length check and then the completeness check; an attempt that
\* fails the length check records the too-short diagnostic, one that passes
\* it and fails the completeness check records the incomplete diagnostic,
\* and either goes to the next attempt, or fails when the attempts are
\* exhausted, without reaching the validator.
C33_ValidatorComesAfterTheChecks ==
    AttemptDone =>
        LET text == LoopText(fn_args.artifact)
            answer == AttemptAnswer
            short == ~Truthy(answer.extracted)
                     \/ answer.extracted.len < MinYamlLength
        IN /\ ValidatorReached =>
                 /\ answer.status = "success"
                 /\ ~short
                 /\ answer.extracted.complete
           /\ (answer.status = "success" /\ short) =>
                 /\ ~ValidatorReached
                 /\ fn_result.errors.kind = text.too_short_feedback
                 /\ NextAttemptOrFail(text.too_short)
           /\ (answer.status = "success" /\ ~short
                  /\ ~answer.extracted.complete) =>
                 /\ ~ValidatorReached
                 /\ fn_result.errors.kind = text.incomplete_feedback
                 /\ NextAttemptOrFail(text.incomplete)

\* the last CD attempt returned a text both too short and truncated: the
\* handler returns "too short" and the validator was not called
C33_Witness ==
    /\ AttemptDone
    /\ fn_args.artifact = "cd"
    /\ fn_args.attempt = 3
    /\ AttemptAnswer.status = "success"
    /\ AttemptAnswer.extracted.len < MinYamlLength
    /\ ~AttemptAnswer.extracted.complete
    /\ fn_result.exit = "return"
    /\ ~ValidatorReached

\* ------------------------------------------------------------------------
\* C34  failures of the stages the handler only logs
\* ------------------------------------------------------------------------

\* The stages in the order lambda_handler runs them, by the agent or
\* function each one calls
StageOrder ==
    <<"repo_ingestor", "repo_scanner", "static_analyzer", "pipeline_designer",
      "security_compliance", "yaml_generator", "pr_manager", "github_api">>

\* The calls of an advisory stage that returned a failure
FailedAdvisoryCalls ==
    {i \in 1..Len(trace) : /\ IsRemoteCall(trace[i])
                           /\ trace[i].name \in AdvisoryStages
                           /\ trace[i].status # "success"}

\* The configured stages that come after the stage `name`
ConfiguredAfter(name) ==
    LET k == CHOOSE k \in 1..Len(StageOrder) : StageOrder[k] = name
    IN {j \in (k + 1)..Len(StageOrder) :
           StageOrder[j] \in event.agent_ids \cup env.functions}

\* C34: a failure result of repo_ingestor, static_analyzer,
\* pipeline_designer, security_compliance or pr_manager is not fatal: its
\* step is appended and written in progress, no failed write names the
\* stage, and the next configured stage is still invoked.
C34_AdvisoryFailuresAreNotFatal ==
    Returned =>
        \A i \in FailedAdvisoryCalls :
            /\ trace[i + 1] = AppendEvent(trace[i].name, 0)
            /\ trace[i + 2].kind = "store"
            /\ trace[i + 2].status = "in_progress"
            /\ \A j \in 1..Len(trace) :
                   ~(/\ trace[j].kind = "store"
                     /\ trace[j].status = "failed"
                     /\ trace[j].step = trace[i].name)
            /\ ConfiguredAfter(trace[i].name) # {} =>
                   LET next == CHOOSE j \in ConfiguredAfter(trace[i].name) :
                                  \A m \in ConfiguredAfter(trace[i].name) :
                                      j <= m
                   IN \E j \in (i + 1)..Len(trace) :
                          /\ IsRemoteCall(trace[j])
                          /\ trace[j].name = StageOrder[next]

\* ------------------------------------------------------------------------
\* C35  a run without the yaml_generator agent
\* ------------------------------------------------------------------------

\* C35: when yaml_generator is absent from agent_ids, no generation call is
\* made, no publish operation is issued, and the task ends with status
\* failed written with step "yaml_generator" and the error that the
\* workflow contents are missing, which the handler also returns.
C35_NoGeneratorEndsInMissingContent ==
    (Returned /\ event.has_repo_url
        /\ "yaml_generator" \notin event.agent_ids) =>
        /\ \A i \in 1..Len(trace) :
               ~(IsRemoteCall(trace[i])
                 /\ trace[i].name \in {"yaml_generator", "github_api"})
        /\ pub_pc = "idle"
        /\ github_result.issued = <<>>
        /\ LastStatusWrite.status = "failed"
        /\ LastStatusWrite.step = "yaml_generator"
        /\ LastStatusWrite.error = MissingContent
        /\ h_result = Return("error", MissingContent)

\* ------------------------------------------------------------------------
\* C36  the success result of invoke_agent and the stream of its attempt
\* ------------------------------------------------------------------------

\* invoke_agent has returned from a call that read event streams
StreamCallReturned ==
    fn_pc = "returned" /\ "streams" \in DOMAIN fn_args

RECURSIVE Concatenation(_)
\* The strings of a sequence, joined in order
Concatenation(fragments) ==
    IF fragments = <<>> THEN ""
    ELSE Concatenation(SubSeq(fragments, 1, Len(fragments) - 1))
            \o fragments[Len(fragments)]

\* The data of the events of one kind in a stream, in stream order
StreamData(stream, kind) ==
    LET selected == SelectSeq(stream.events, LAMBDA e : e.kind = kind)
    IN [i \in 1..Len(selected) |-> selected[i].data]

\* The stream of the last invocation made
LastStream ==
    fn_args.streams[Len(fn_args.streams)]

\* C36: a success result of invoke_agent reflects only the attempt that
\* succeeded: its completion is the concatenation, in order, of exactly the
\* text fragments streamed in that attempt, and its action_group_invocations
\* lists, in stream order, one record per invocation reported in that
\* attempt; nothing read in an earlier, failed attempt is included.
C36_SuccessReflectsTheSucceedingAttempt ==
    StreamCallReturned =>
        /\ fn_result.status = "success" <=> LastStream.end = "end"
        /\ fn_result.status = "success" =>
              /\ fn_result.completion
                    = Concatenation(StreamData(LastStream, "chunk"))
              /\ fn_result.action_group_invocations
                    = StreamData(LastStream, "invocation")

\* the first invocation was throttled after a fragment and an invocation
\* had been read; the second one streamed two fragments and succeeded
C36_Witness ==
    /\ StreamCallReturned
    /\ Len(fn_args.streams) = 2
    /\ StreamData(fn_args.streams[1], "chunk") = <<"a">>
    /\ StreamData(fn_args.streams[1], "invocation") = <<"/create-branch">>
    /\ StreamData(LastStream, "chunk") = <<"b", "a">>
    /\ fn_result.status = "success"
    /\ fn_result.completion = "ba"
    /\ fn_result.action_group_invocations = <<>>

\* ------------------------------------------------------------------------
\* C37  execute_github_workflow on a repository that was published before
\* ------------------------------------------------------------------------

\* execute_github_workflow has returned from a call, with the github_api
\* Lambda as publishing API, that found the branch gen-ai/cicd-generation
\* and a pull request for it in the repository
RerunOnPublishedRepository ==
    /\ pub_pc = "returned"
    /\ pub_call.configured
    /\ pub_call.backend = "github_api"
    /\ pub_call.gh.branch
    /\ pub_call.gh.pr
    /\ \E p \in WorkflowPaths : Truthy(CallFiles[p])

\* The answers that tell of a failure around the github_api Lambda rather
\* than of the state of the repository
EnvironmentFailures ==
    {"Function not found", "Failed to retrieve GitHub token: AccessDenied"}

\* The Lambda was reached, had its token and GitHub took the requests for
\* the branch and for every file of the payload
RerunWentThrough ==
    /\ \A operation \in {"create_branch", "create_file", "create_pr"} :
          /\ Issued(operation)
          /\ github_result.operations[operation].message
                \notin EnvironmentFailures
    /\ \A p \in WorkflowPaths :
          github_result.operations["create_file"].files[p] # "error"

\* C37: the publish sequence is idempotent on re-run: against a repository
\* in which the branch and a pull request for it already exist, with the
\* github_api Lambda as publishing API, create_branch reports success, the
\* files are updated, and the overall outcome is success = true with a
\* warning that the existing pull request was reused.
C37_RerunReusesThePullRequest ==
    (RerunOnPublishedRepository /\ RerunWentThrough) =>
        /\ github_result.operations["create_branch"].status = "success"
        /\ \A p \in WorkflowPaths :
              Truthy(CallFiles[p]) => gh.files[p] = CallFiles[p]
        /\ github_result.success
        /\ github_result.warnings =
              <<"Pull request already exists for branch; reused existing PR">>

\* ------------------------------------------------------------------------
\* C38  monitor_progress
\* ------------------------------------------------------------------------

\* What the polls of monitor_progress came back with, in order: the status
\* of the record, "absent" when there was no record, "error" when the poll
\* raised
MonitorReads ==
    fn_args.reads

\* The last poll read a terminal status from the record
TerminalStatusRead ==
    /\ MonitorReads # <<>>
    /\ MonitorReads[Len(MonitorReads)] \in TerminalStatuses

\* monitor_progress has returned without the user having stopped it
MonitorReturned ==
    /\ fn_pc = "returned"
    /\ fn_result.status \notin {"monitoring_stopped", "KeyboardInterrupt"}

\* C38: monitor_progress keeps polling while the task record is absent or
\* its status is not terminal and survives polling errors; it returns the
\* terminal status (completed or failed) as soon as a poll reads one, never
\* reports a terminal status that was not read from the record, and returns
\* status "timeout" once max_wait has elapsed without a terminal status
\* being read.  No poll follows one that read a terminal status, none
\* starts once max_wait has elapsed, and the polls are at least
\* poll_interval apart.
C38_MonitorPollsUntilTerminalOrTimeout ==
    /\ \A i \in 1..(Len(MonitorReads) - 1) :
          MonitorReads[i] \notin TerminalStatuses
    /\ TerminalStatusRead => fn_pc \in {"item", "returned"}
    /\ fn_pc = "get_item" => fn_args.elapsed < fn_args.max_wait
    /\ (Len(MonitorReads) - 1) * fn_args.poll_interval < fn_args.max_wait
          \/ MonitorReads = <<>>
    /\ fn_pc # "returned" => fn_result.status = "none"
    /\ MonitorReturned =>
          IF TerminalStatusRead
          THEN fn_result.status = MonitorReads[Len(MonitorReads)]
          ELSE /\ fn_result.status = "timeout"
               /\ fn_args.elapsed >= fn_args.max_wait

\* a poll that raised, one that read in_progress, one that read failed:
\* failed is returned
C38_Witness ==
    /\ MonitorReturned
    /\ MonitorReads = <<"error", "in_progress", "failed">>
    /\ fn_result.status = "failed"
    /\ task_record.status = "failed"

\* ------------------------------------------------------------------------
\* C39  an event without repo_url
\* ------------------------------------------------------------------------

\* C39: if the event carries no repo_url, lambda_handler returns status
\* error with message "repo_url required" and leaves everything unchanged:
\* no task record is created, no agent or function is invoked and no step
\* is recorded.
C39_NoRepoUrlChangesNothing ==
    ~event.has_repo_url =>
        /\ h_pc \in {"invoked", "returned"}
        /\ Returned <=> h_result = Return("error", "repo_url required")
        /\ ~Returned => h_result = NoReturn
        /\ task_record = NoRecord
        /\ StatusWrites = <<>>
        /\ \A i \in 1..Len(trace) :
              /\ ~IsRemoteCall(trace[i])
              /\ trace[i] = ReturnEvent("error", "repo_url required")
        /\ Len(trace) <= 1
        /\ workflow_steps = <<>>
        /\ pub_pc = "idle"
        /\ gh = FreshRepository

\* lambda_handler has returned from an event without repo_url, in an
\* environment where every function and agent is configured
C39_Witness ==
    /\ ~event.has_repo_url
    /\ Returned
    /\ h_result = Return("error", "repo_url required")
    /\ env.functions = FunctionNames
    /\ event.agent_ids = AgentNames
    /\ task_record = NoRecord

====
